---- MODULE Spec2Model ----
(***************************************************************************)
(* jasmin-api: the telnet console engine behind the REST views.            *)
(*                                                                         *)
(* One HTTP request is followed from TelnetConnectionMiddleware            *)
(* .process_request (opening and authenticating one pexpect session per    *)
(* resolved endpoint), through the view the router dispatches to (a        *)
(* send/expect dialogue on request.telnet, set_ikeys, persist,             *)
(* sync_conf_instances), to process_response (quit / kill of every         *)
(* session the request object holds).                                      *)
(*                                                                         *)
(* Console text is abstracted to the set of phrases a reply contains and   *)
(* the prompt it ends with; a pexpect pattern list is an ordered list of   *)
(* rules over those phrases and the first rule that matches is the index   *)
(* pexpect returns.  Text values are abstract: the py3 bytes/str typing    *)
(* of pexpect's match groups is not modelled.                              *)
(***************************************************************************)
EXTENDS Integers, Sequences, FiniteSets, TLC

VARIABLES
    settings,   \* django settings read by the engine
    request,    \* the request object: path, data, telnet, telnet_list
    pc,         \* position of the request in middleware / view code
    loc,        \* local variables of the running function
    exc,        \* exception that ended process_request or the view ("" = none)
    log,        \* every spawn / sendline / expect / kill, in program order
    cmode,      \* console side of each session: what prompt it is at
    match,      \* telnet.match of the last expect: which patterns of its list fit the reply
    errlog,     \* number of records sync_conf_instances has logged
    peer,       \* a second request in flight at the same time: its own request object
    text        \* a text value on its way through one of the views' conversions

vars == <<settings, request, pc, loc, exc, log, cmode, match, errlog, peer, text>>
cfg  == <<settings, peer, text>>

----------------------------------------------------------------------------
(* Bounds of the model *)

MaxEndpoints == 3      \* resolved endpoints (docker ports / k8s pod ips)
MaxPhrases   == 2      \* independent phrases in one console reply
MaxRows      == 1      \* data rows in a listing reply
MaxUpdates   == 2      \* entries of a partial-update body
MaxLines     == 1      \* lines read back from a session iterated as a list
MaxText      == 3      \* characters of a text value given to a conversion
MaxListing   == 5      \* lines of a listing reply before the prompt
MaxFilters   == 2      \* entries of a filter listing

Sessions == 1..MaxEndpoints
None     == 0

(* pexpect.expect results: a rule index (0-based, as pexpect returns it), *)
(* or one of the two exceptions of a wait.                                 *)
TIMEOUT == 0 - 1
EOF     == 0 - 2

----------------------------------------------------------------------------
(* Console replies and pattern rules *)

Phrases == { "Unknown", "UnknownKind", "UnknownSMPPKey", "UnknownUserKey",
             "CanNotModify", "Error", "Successfully", "SyntaxInvalid",
             "HttpUrlInvalid", "HttpMethodInvalid", "Banner", "Usage" }

(* 'Unknown Group: ', 'Unknown SMPPClientConfig key:' ... all contain       *)
(* 'Unknown ', and 'HttpConnector url syntax is invalid' contains          *)
(* ' syntax is invalid': a reply holding the longer phrase holds the       *)
(* shorter one.                                                            *)
Closure(f) ==
    f \cup (IF f \cap {"UnknownKind", "UnknownSMPPKey", "UnknownUserKey"} # {}
            THEN {"Unknown"} ELSE {})
        \cup (IF f \cap {"HttpUrlInvalid", "HttpMethodInvalid"} # {} THEN {"SyntaxInvalid"} ELSE {})

PhraseSets == { Closure(f) : f \in { g \in SUBSET Phrases : Cardinality(g) <= MaxPhrases } }

Replies == [feat : PhraseSets, prompt : {"std", "int"}]

Rule(need, prompt) == [need |-> need, prompt |-> prompt]

Matches(rule, r) ==
    /\ rule.need \subseteq r.feat
    /\ rule.prompt \in {"any", r.prompt}

(* the least element of a set of positions *)
FirstOf(S) == CHOOSE x \in S : \A y \in S : x <= y

(* the indices (0-based) of all the rules of the list that match the reply *)
Fitting(rules, r) == { k - 1 : k \in { j \in 1..Len(rules) : Matches(rules[j], r) } }

(* the wait answering with the last rule of the list that matches *)
Classify_last_match(rules, r) ==
    IF \E k \in 1..Len(rules) : Matches(rules[k], r)
    THEN (CHOOSE k \in 1..Len(rules) :
              /\ Matches(rules[k], r)
              /\ \A j \in (k + 1)..Len(rules) : ~Matches(rules[j], r)) - 1
    ELSE TIMEOUT

(* index of the first rule of the list that matches, TIMEOUT when none does *)
Classify(rules, r) ==
    IF \E k \in 1..Len(rules) : Matches(rules[k], r)
    THEN (CHOOSE k \in 1..Len(rules) :
              /\ Matches(rules[k], r)
              /\ \A j \in 1..(k - 1) : ~Matches(rules[j], r)) - 1
    ELSE TIMEOUT

STANDARD_PROMPT    == "std"
INTERACTIVE_PROMPT == "int"

(* tools.py set_ikeys: the rules of the reply to one '<key> <value>' line *)
set_ikeys_rules ==
    << Rule({"Unknown"}, INTERACTIVE_PROMPT),
       Rule({"CanNotModify"}, INTERACTIVE_PROMPT),
       Rule({}, INTERACTIVE_PROMPT),
       Rule({"UnknownSMPPKey"}, INTERACTIVE_PROMPT),
       Rule({"Error"}, STANDARD_PROMPT) >>

(* tools.py set_ikeys: the rules of the reply to 'ok' *)
set_ikeys_ok_rules ==
    << Rule({"SyntaxInvalid"}, INTERACTIVE_PROMPT),
       Rule({}, STANDARD_PROMPT) >>

(* r'.*' + STANDARD_PROMPT, r'(.+)\n' + STANDARD_PROMPT, expect_exact(STANDARD_PROMPT) *)
prompt_rules == << Rule({}, STANDARD_PROMPT) >>

(* 'Adding a new <Kind>(.+)\n' + INTERACTIVE_PROMPT *)
adding_rules == << Rule({"Banner"}, INTERACTIVE_PROMPT) >>

(* simple_<kind>_action: Successfully / Unknown <Kind>: / anything *)
simple_action_rules ==
    << Rule({"Successfully"}, STANDARD_PROMPT),
       Rule({"UnknownKind"}, STANDARD_PROMPT),
       Rule({}, STANDARD_PROMPT) >>

(* get_user / get_smppccm / get_httpccm: Unknown <Kind>: / Usage: / data *)
show_rules ==
    << Rule({"UnknownKind"}, STANDARD_PROMPT),
       Rule({"Usage"}, STANDARD_PROMPT),
       Rule({}, STANDARD_PROMPT) >>

(* 'user -u <uid>' and 'smppccm -u <cid>' *)
updating_rules ==
    << Rule({"Banner"}, INTERACTIVE_PROMPT),
       Rule({"UnknownKind"}, STANDARD_PROMPT),
       Rule({}, "any") >>

(* UserViewSet.partial_update: the reply to one update line, and to 'ok' *)
user_update_rules ==
    << Rule({"UnknownUserKey"}, INTERACTIVE_PROMPT),
       Rule({"Error"}, STANDARD_PROMPT),
       Rule({}, INTERACTIVE_PROMPT),
       Rule({}, "any") >>

user_ok_rules ==
    << Rule({"Error"}, STANDARD_PROMPT),
       Rule({}, INTERACTIVE_PROMPT) >>

(* SMPPCCMViewSet.custom_partial_update: one update line, and 'ok' *)
smppccm_update_rules ==
    << Rule({"UnknownSMPPKey"}, INTERACTIVE_PROMPT),
       Rule({"Error"}, STANDARD_PROMPT),
       Rule({}, INTERACTIVE_PROMPT),
       Rule({}, "any") >>

smppccm_ok_rules ==
    << Rule({"Error"}, STANDARD_PROMPT),
       Rule({}, INTERACTIVE_PROMPT),
       Rule({}, STANDARD_PROMPT) >>

(* HTTPCCMViewSet.create: the reply to 'ok' *)
httpccm_ok_rules ==
    << Rule({"HttpUrlInvalid"}, INTERACTIVE_PROMPT),
       Rule({"HttpMethodInvalid"}, INTERACTIVE_PROMPT),
       Rule({}, INTERACTIVE_PROMPT),
       Rule({}, "any") >>

----------------------------------------------------------------------------
(* The console: what a session can answer *)

BeginCmds == { "group -a", "filter -a", "user -a", "user -u", "smppccm -a",
               "smppccm -u", "httpccm -a", "morouter -a", "mtrouter -a" }

(* A console at the ready prompt enters the interactive sub-prompt only on *)
(* a begin command; inside the sub-prompt a line either keeps it there or  *)
(* returns it to the ready prompt.                                         *)
ConsoleReplies(mode, cmd) ==
    { r \in Replies :
        (mode = "std" /\ cmd \notin BeginCmds) => r.prompt = "std" }

(* What one send + expect on session s can produce: the expect result and  *)
(* the prompt the console is left at.  No answer in time leaves the        *)
(* console where it was; a closed stream is dead for good.                 *)
Outcomes(s, cmd, rules) ==
    IF cmode[s] = "dead"
    THEN { [res |-> EOF, mode |-> "dead", all |-> {}] }
    ELSE { [res |-> Classify(rules, r), mode |-> r.prompt, all |-> Fitting(rules, r)] :
               r \in ConsoleReplies(cmode[s], cmd) }
         \cup { [res |-> TIMEOUT, mode |-> cmode[s], all |-> {}],
                [res |-> EOF, mode |-> "dead", all |-> {}] }

----------------------------------------------------------------------------
(* The log of console traffic *)

Ev(s, t, cmd, arg, nl, res) ==
    [s |-> s, t |-> t, cmd |-> cmd, arg |-> arg, nl |-> nl, res |-> res]

Spawned(s)            == Ev(s, "spawn", "", "", FALSE, 0)
Sent(s, cmd, arg, nl) == Ev(s, "send", cmd, arg, nl, 0)
Got(s, site, res)     == Ev(s, "expect", site, "", FALSE, res)
Killed(s)             == Ev(s, "kill", "", "", FALSE, 0)

(* telnet.sendline(line) *)
sendline(s, cmd, arg, nl) == log' = Append(log, Sent(s, cmd, arg, nl))

----------------------------------------------------------------------------
(* Control transfer *)

Goto(l) == pc' = l /\ UNCHANGED <<exc, loc, request, errlog>>

(* an exception leaving a view: DRF / django turn it into the response,    *)
(* which then passes through process_response                              *)
Raise(e) == pc' = "process_response" /\ exc' = e /\ UNCHANGED <<loc, request, errlog>>

PexpectError(r) == IF r = TIMEOUT THEN "pexpect.TIMEOUT" ELSE "pexpect.EOF"

(* telnet.sendline(line); telnet.expect(rules): one round trip on session  *)
(* s, continued by K(result)                                               *)
RoundTrip(s, cmd, arg, nl, site, rules, K(_)) ==
    \E o \in Outcomes(s, cmd, rules) :
        /\ log' = log \o << Sent(s, cmd, arg, nl), Got(s, site, o.res) >>
        /\ cmode' = [cmode EXCEPT ![s] = o.mode]
        /\ match' = o.all
        /\ K(o.res)

----------------------------------------------------------------------------
(* Requests *)

Data(has, rtype, nconn, updates, bad) ==
    [has |-> has, rtype |-> rtype, nconn |-> nconn, updates |-> updates, bad |-> bad]

NoData == Data({}, "", 0, 0, 0)

(* request.data of the create views: which fields are present *)
GroupData   == { Data(h, "", 0, 0, 0) : h \in { {}, {"gid"} } }
FilterData  == { Data(h, t, 0, 0, 0) :
                   h \in { {"type"}, {"type", "fid"}, {"type", "fid", "parameter"} },
                   t \in { "transparentfilter", "userfilter", "nosuchfilter" } }
UserData    == { Data(h, "", 0, 0, 0) :
                   h \in { {"uid", "gid", "username"},
                           {"uid", "gid", "username", "password"} } }
SmppccmData == { Data(h, "", 0, 0, 0) : h \in { {}, {"cid"} } }
RouteData   == { Data(h, t, n, 0, 0) :
                   h \in { {"type"}, {"type", "order", "rate"},
                           {"type", "order", "rate", "filters"} },
                   t \in { "defaultroute", "staticroute", "randomroundrobinroute" },
                   n \in 0..2 }
(* a partial-update body: `updates` entries, entry `bad` malformed (0: none); *)
(* updates = 0 is the empty (or ill-typed) body                              *)
UpdateData  == { Data({}, "", 0, n, b) : n \in 0..MaxUpdates, b \in 0..1 } 
(* HTTPCCMViewSet.create: `updates` items in the body, 'cid' among them or not *)
HttpccmData == { Data(h, "", 0, n, 0) : h \in { {}, {"cid"} }, n \in 1..MaxUpdates }

ViewData ==
    [ v \in { "GroupViewSet.list", "GroupViewSet.destroy", "GroupViewSet.enable",
              "GroupViewSet.disable",
              "FiltersViewSet.list", "FiltersViewSet.retrieve", "FiltersViewSet.destroy",
              "UserViewSet.list", "UserViewSet.retrieve", "UserViewSet.enable",
              "UserViewSet.disable", "UserViewSet.smpp_unbind", "UserViewSet.smpp_ban",
              "SMPPCCMViewSet.list", "SMPPCCMViewSet.retrieve", "SMPPCCMViewSet.destroy",
              "SMPPCCMViewSet.start", "SMPPCCMViewSet.stop",
              "SMPPCCMViewSet.list_smppc_status",
              "HTTPCCMViewSet.list", "HTTPCCMViewSet.retrieve", "HTTPCCMViewSet.destroy",
              "MORouterViewSet.list", "MORouterViewSet.retrieve", "MORouterViewSet.flush",
              "MORouterViewSet.destroy",
              "MTRouterViewSet.list", "MTRouterViewSet.retrieve", "MTRouterViewSet.flush",
              "MTRouterViewSet.destroy" } |-> { NoData } ]
    @@ ( "GroupViewSet.create" :> GroupData )
    @@ ( "FiltersViewSet.create" :> FilterData )
    @@ ( "UserViewSet.create" :> UserData )
    @@ ( "UserViewSet.partial_update" :> UpdateData )
    @@ ( "SMPPCCMViewSet.create" :> SmppccmData )
    @@ ( "SMPPCCMViewSet.custom_partial_update" :> UpdateData )
    @@ ( "HTTPCCMViewSet.create" :> HttpccmData )
    @@ ( "MORouterViewSet.create" :> RouteData )
    @@ ( "MTRouterViewSet.create" :> RouteData )

Views == DOMAIN ViewData

NoLoc == [cur |-> 0, i |-> 0, ikeys |-> << >>, arg |-> << >>, ret |-> "", rows |-> 0,
          listing |-> << >>, entry |-> << >>, instances |-> << >>]

(* the request as django hands it to the middleware: no telnet attributes yet *)
NewRequest(api, view, data) ==
    [api |-> api, view |-> view, data |-> data,
     has_telnet |-> FALSE, telnet |-> None,
     has_telnet_list |-> FALSE, telnet_list |-> << >>]

(* settings.py: JASMIN_DOCKER, JASMIN_K8S and the endpoints they resolve to *)
Settings ==
    { [JASMIN_DOCKER |-> d, JASMIN_K8S |-> k, endpoints |-> n] :
        d \in BOOLEAN, k \in BOOLEAN, n \in 0..MaxEndpoints }

(* no conversion under way *)
NoText == [fn |-> "", a |-> << >>, b |-> << >>, out |-> << >>, done |-> FALSE]

(* the second request before the middleware has seen it *)
NoPeer ==
    [pc |-> "process_request", cur |-> 1, i |-> 1, exc |-> "", log |-> << >>,
     has_telnet |-> FALSE, telnet |-> None,
     has_telnet_list |-> FALSE, telnet_list |-> << >>]

Init ==
    /\ settings \in { c \in Settings :
                        (~c.JASMIN_DOCKER /\ ~c.JASMIN_K8S) => c.endpoints = 1 }
    /\ request \in UNION { { NewRequest(TRUE, v, d) : d \in ViewData[v] } : v \in Views }
                    \cup { NewRequest(FALSE, "other", NoData) }
    /\ pc = "process_request"
    /\ loc = NoLoc
    /\ exc = ""
    /\ log = << >>
    /\ cmode = [s \in Sessions |-> "none"]
    /\ match = {}
    /\ errlog = 0
    /\ peer = NoPeer
    /\ text = NoText

----------------------------------------------------------------------------
(* middleware.py: TelnetConnectionMiddleware *)

(* An exception leaving process_request leaves MiddlewareMixin.__call__:   *)
(* neither the view nor this middleware's process_response runs, and the   *)
(* request ends ("failed") with whatever the request object holds.         *)
RaiseInRequest(e) == pc' = "failed" /\ exc' = e

OpenPool ==
    [request EXCEPT !.has_telnet = TRUE, !.telnet = None,
                    !.has_telnet_list = TRUE, !.telnet_list = << >>]

(* process_request opening the pool whatever the path *)
process_request_every_path ==
    /\ pc = "process_request"
    /\ UNCHANGED <<cfg, log, cmode, match, errlog>>
    /\ IF settings.JASMIN_DOCKER
       THEN /\ request' = OpenPool
            /\ loc' = [loc EXCEPT !.cur = 1]
            /\ IF settings.endpoints = 0
               THEN RaiseInRequest("TelnetLoginFailed")
               ELSE pc' = "telnet_request" /\ UNCHANGED exc
       ELSE IF settings.JASMIN_K8S
       THEN /\ request' = OpenPool
            /\ loc' = [loc EXCEPT !.cur = 1]
            /\ pc' = "set_telnet_list"
            /\ UNCHANGED exc
       ELSE /\ request' = [request EXCEPT !.has_telnet = TRUE, !.telnet = None]
            /\ loc' = [loc EXCEPT !.cur = 1]
            /\ pc' = "telnet_request"
            /\ UNCHANGED exc

process_request ==
    /\ pc = "process_request"
    /\ UNCHANGED <<cfg, log, cmode, match, errlog>>
    /\ IF ~request.api
       THEN pc' = "get_response" /\ UNCHANGED <<request, loc, exc>>
       ELSE IF settings.JASMIN_DOCKER
       THEN /\ request' = OpenPool
            /\ loc' = [loc EXCEPT !.cur = 1]
            /\ IF settings.endpoints = 0
               THEN RaiseInRequest("TelnetLoginFailed")
               ELSE pc' = "telnet_request" /\ UNCHANGED exc
       ELSE IF settings.JASMIN_K8S
       THEN /\ request' = OpenPool
            /\ loc' = [loc EXCEPT !.cur = 1]
            /\ pc' = "set_telnet_list"
            /\ UNCHANGED exc
       ELSE /\ request' = [request EXCEPT !.has_telnet = TRUE, !.telnet = None]
            /\ loc' = [loc EXCEPT !.cur = 1]
            /\ pc' = "telnet_request"
            /\ UNCHANGED exc

(* the k8s API either raises (the except clause names ApiException, which  *)
(* the module never imports) or lists the pods                             *)
set_telnet_list ==
    /\ pc = "set_telnet_list"
    /\ UNCHANGED <<cfg, request, loc, log, cmode, match, errlog>>
    /\ \/ RaiseInRequest("NameError")
       \/ IF settings.endpoints = 0
          THEN RaiseInRequest("TelnetLoginFailed")
          ELSE pc' = "telnet_request" /\ UNCHANGED exc

(* what the wait for a login cue can give: the cue, nothing, or a closed stream *)
CueOutcomes == { 0, TIMEOUT, EOF }

CueError(r) == IF r = EOF THEN "TelnetUnexpectedResponse" ELSE "TelnetConnectionTimeout"

(* the login with the username sent without waiting for its cue *)
telnet_request_no_username_cue ==
    /\ UNCHANGED <<cfg, request, loc, errlog>>
    /\ \/ /\ pc = "telnet_request"
          /\ log' = Append(log, Spawned(loc.cur))
          /\ cmode' = [cmode EXCEPT ![loc.cur] = "login"]
          /\ match' = match
          /\ pc' = "telnet_request:user"
          /\ UNCHANGED exc
       \/ /\ pc = "telnet_request:user"
          /\ \E r \in CueOutcomes :
               /\ log' = log \o << Sent(loc.cur, "USERNAME", "", FALSE),
                                   Got(loc.cur, "Password: ", r) >>
               /\ cmode' = [cmode EXCEPT ![loc.cur] = IF r = EOF THEN "dead" ELSE "login"]
               /\ match' = IF r = 0 THEN {0} ELSE {}
               /\ IF r = 0 THEN pc' = "telnet_request:pw" /\ UNCHANGED exc
                           ELSE RaiseInRequest(CueError(r))
       \/ /\ pc = "telnet_request:pw"
          /\ sendline(loc.cur, "PASSWORD", "", FALSE)
          /\ pc' = "process_request:prompt"
          /\ UNCHANGED <<cmode, match, exc>>

telnet_request ==
    /\ UNCHANGED <<cfg, request, loc, errlog>>
    /\ \/ /\ pc = "telnet_request"
          /\ \E r \in CueOutcomes :
               /\ log' = log \o << Spawned(loc.cur), Got(loc.cur, "Username: ", r) >>
               /\ cmode' = [cmode EXCEPT ![loc.cur] = IF r = EOF THEN "dead" ELSE "login"]
               /\ match' = IF r = 0 THEN {0} ELSE {}
               /\ IF r = 0 THEN pc' = "telnet_request:user" /\ UNCHANGED exc
                           ELSE RaiseInRequest(CueError(r))
       \/ /\ pc = "telnet_request:user"
          /\ \E r \in CueOutcomes :
               /\ log' = log \o << Sent(loc.cur, "USERNAME", "", FALSE),
                                   Got(loc.cur, "Password: ", r) >>
               /\ cmode' = [cmode EXCEPT ![loc.cur] = IF r = EOF THEN "dead" ELSE "login"]
               /\ match' = IF r = 0 THEN {0} ELSE {}
               /\ IF r = 0 THEN pc' = "telnet_request:pw" /\ UNCHANGED exc
                           ELSE RaiseInRequest(CueError(r))
       \/ /\ pc = "telnet_request:pw"
          /\ sendline(loc.cur, "PASSWORD", "", FALSE)
          /\ pc' = "process_request:prompt"
          /\ UNCHANGED <<cmode, match, exc>>

(* the assignment with the replica list fed on every pass of the loop *)
Assign_every_session_listed(req, s) ==
    IF ~req.has_telnet_list
    THEN [req EXCEPT !.telnet = s]
    ELSE [req EXCEPT !.telnet = IF @ = None THEN s ELSE @,
                     !.telnet_list = Append(@, s)]

(* the assignment with each later session put at the head of the list *)
Assign_newest_first(req, s) ==
    IF ~req.has_telnet_list \/ req.telnet = None
    THEN [req EXCEPT !.telnet = s]
    ELSE [req EXCEPT !.telnet_list = << s >> \o @]

(* if request.telnet is None: request.telnet = telnet                      *)
(* else: request.telnet_list.append(telnet)                                *)
(* (without docker / k8s there is no list: request.telnet = telnet)        *)
Assign(req, s) ==
    IF ~req.has_telnet_list \/ req.telnet = None
    THEN [req EXCEPT !.telnet = s]
    ELSE [req EXCEPT !.telnet_list = Append(@, s)]

(* the wait with a failed endpoint skipped instead of raised *)
process_request_prompt_skips_failed ==
    /\ pc = "process_request:prompt"
    /\ UNCHANGED <<cfg, errlog, exc>>
    /\ \E r \in CueOutcomes :
         /\ log' = Append(log, Got(loc.cur, "STANDARD_PROMPT", r))
         /\ cmode' = [cmode EXCEPT ![loc.cur] =
                         IF r = 0 THEN "std" ELSE IF r = EOF THEN "dead" ELSE "login"]
         /\ match' = IF r = 0 THEN {0} ELSE {}
         /\ request' = IF r = 0 THEN Assign(request, loc.cur) ELSE request
         /\ loc' = [loc EXCEPT !.cur = @ + 1]
         /\ pc' = IF request.has_telnet_list /\ loc.cur < settings.endpoints
                  THEN "telnet_request" ELSE "get_response"

(* telnet.expect_exact(STANDARD_PROMPT) on the session telnet_request      *)
(* returned, then the primary / replica assignment and the next endpoint   *)
process_request_prompt ==
    /\ pc = "process_request:prompt"
    /\ UNCHANGED <<cfg, errlog>>
    /\ \E r \in CueOutcomes :
         /\ log' = Append(log, Got(loc.cur, "STANDARD_PROMPT", r))
         /\ cmode' = [cmode EXCEPT ![loc.cur] =
                         IF r = 0 THEN "std" ELSE IF r = EOF THEN "dead" ELSE "login"]
         /\ match' = IF r = 0 THEN {0} ELSE {}
         /\ IF r = EOF
            THEN RaiseInRequest("TelnetLoginFailed") /\ UNCHANGED <<request, loc>>
            ELSE IF r = TIMEOUT
            THEN RaiseInRequest("pexpect.TIMEOUT") /\ UNCHANGED <<request, loc>>
            ELSE /\ request' = Assign(request, loc.cur)
                 /\ loc' = [loc EXCEPT !.cur = @ + 1]
                 /\ pc' = IF request.has_telnet_list /\ loc.cur < settings.endpoints
                          THEN "telnet_request" ELSE "get_response"
                 /\ UNCHANGED exc

(* MiddlewareMixin.__call__: process_request returned None, the view runs *)
get_response ==
    /\ pc = "get_response"
    /\ UNCHANGED <<cfg, request, exc, log, cmode, match, errlog>>
    /\ loc' = NoLoc
    /\ pc' = IF request.api THEN request.view ELSE "process_response"

(* the close without the kill of a session whose prompt did not come back *)
Quit_without_kill(s) ==
    \E o \in Outcomes(s, "quit", prompt_rules) :
        /\ log' = log \o << Sent(s, "quit", "", FALSE), Got(s, "quit", o.res) >>
        /\ cmode' = [cmode EXCEPT ![s] = o.mode]
        /\ match' = o.all

(* sendline('quit'); expect_exact(STANDARD_PROMPT); kill(9) on any pexpect error *)
Quit(s) ==
    \E o \in Outcomes(s, "quit", prompt_rules) :
        /\ log' = log \o << Sent(s, "quit", "", FALSE), Got(s, "quit", o.res) >>
                      \o (IF o.res = 0 THEN << >> ELSE << Killed(s) >>)
        /\ cmode' = [cmode EXCEPT ![s] = IF o.res = 0 THEN o.mode ELSE "dead"]
        /\ match' = o.all

process_response ==
    /\ UNCHANGED <<cfg, request, exc, errlog>>
    /\ \/ /\ pc = "process_response"
          /\ IF request.has_telnet /\ request.telnet # None
             THEN Quit(request.telnet)
             ELSE UNCHANGED <<log, cmode, match>>
          /\ loc' = [loc EXCEPT !.i = 1]
          /\ pc' = IF request.has_telnet_list /\ Len(request.telnet_list) > 0
                   THEN "process_response:list" ELSE "done"
       \/ /\ pc = "process_response:list"
          /\ Quit(request.telnet_list[loc.i])
          /\ loc' = [loc EXCEPT !.i = @ + 1]
          /\ pc' = IF loc.i < Len(request.telnet_list)
                   THEN "process_response:list" ELSE "done"

----------------------------------------------------------------------------
(* tools.py *)

Return == Goto("process_response")

(* the continuation of a wait whose only rule is the ready prompt *)
OnPrompt(r, next) == IF r = 0 THEN next ELSE Raise(PexpectError(r))

MultiInstance == settings.JASMIN_DOCKER \/ settings.JASMIN_K8S

(* getattr(request, 'telnet_list', []) *)
TelnetListOrEmpty == IF request.has_telnet_list THEN request.telnet_list ELSE << >>

Call_set_ikeys(keys, ret) ==
    /\ pc' = "set_ikeys"
    /\ loc' = [loc EXCEPT !.ikeys = keys, !.i = 1, !.ret = ret]
    /\ UNCHANGED <<exc, request, errlog>>

(* the pairs taken from the end of the mapping *)
KeyAt_reversed(keys2vals, i) == keys2vals[Len(keys2vals) + 1 - i]

(* for key, val in keys2vals.items(): the i-th pair of the mapping *)
KeyAt(keys2vals, i) == keys2vals[i]

(* the dispatch with the 'can not be modified' reply let through *)
set_ikeys_matched_ignores_read_only(r) ==
    IF r = 0 THEN Raise("UnknownError")
    ELSE IF r \in {3, 4} THEN Raise("JasminSyntaxError")
    ELSE IF r \in {1, 2}
    THEN /\ pc' = "set_ikeys"
         /\ loc' = [loc EXCEPT !.i = @ + 1]
         /\ UNCHANGED <<exc, request, errlog>>
    ELSE Raise(PexpectError(r))

(* what set_ikeys does with the index expect returned for one pair *)
set_ikeys_matched(r) ==
    IF r = 0 THEN Raise("UnknownError")
    ELSE IF r = 1 THEN Raise("CanNotModifyError")
    ELSE IF r \in {3, 4} THEN Raise("JasminSyntaxError")
    ELSE IF r = 2
    THEN /\ pc' = "set_ikeys"
         /\ loc' = [loc EXCEPT !.i = @ + 1]
         /\ UNCHANGED <<exc, request, errlog>>
    ELSE Raise(PexpectError(r))

(* set_ikeys returning normally whatever the reply to 'ok' *)
set_ikeys_ignores_invalid ==
    /\ UNCHANGED cfg
    /\ pc = "set_ikeys"
    /\ \/ /\ loc.i <= Len(loc.ikeys)
          /\ RoundTrip(request.telnet, "kv", KeyAt(loc.ikeys, loc.i), FALSE,
                       "set_ikeys", set_ikeys_rules, set_ikeys_matched)
       \/ /\ loc.i > Len(loc.ikeys)
          /\ RoundTrip(request.telnet, "ok", "", FALSE,
                       "set_ikeys.ok", set_ikeys_ok_rules,
                LAMBDA r :
                    IF r \in {0, 1} THEN Goto(loc.ret)
                    ELSE Raise(PexpectError(r)))

set_ikeys ==
    /\ UNCHANGED cfg
    /\ pc = "set_ikeys"
    /\ \/ /\ loc.i <= Len(loc.ikeys)
          /\ RoundTrip(request.telnet, "kv", KeyAt(loc.ikeys, loc.i), FALSE,
                       "set_ikeys", set_ikeys_rules, set_ikeys_matched)
       \/ /\ loc.i > Len(loc.ikeys)
          /\ RoundTrip(request.telnet, "ok", "", FALSE,
                       "set_ikeys.ok", set_ikeys_ok_rules,
                LAMBDA r :
                    IF r = 0 THEN Raise("JasminSyntaxError")
                    ELSE IF r = 1 THEN Goto(loc.ret)
                    ELSE Raise(PexpectError(r)))

Call_sync_conf_instances(telnet_list, ret) ==
    /\ pc' = "sync_conf_instances"
    /\ loc' = [loc EXCEPT !.arg = telnet_list, !.i = 1, !.ret = ret]
    /\ UNCHANGED <<exc, request, errlog>>

(* the loop with the failure of a replica left to propagate *)
sync_conf_instances_raises ==
    /\ UNCHANGED <<cfg, request>>
    /\ pc = "sync_conf_instances"
    /\ \/ /\ loc.i <= Len(loc.arg)
          /\ \E o \in Outcomes(loc.arg[loc.i], "load", prompt_rules) :
               /\ log' = log \o << Sent(loc.arg[loc.i], "load", "", TRUE),
                                   Got(loc.arg[loc.i], "load", o.res) >>
               /\ cmode' = [cmode EXCEPT ![loc.arg[loc.i]] = o.mode]
               /\ match' = o.all
               /\ errlog' = errlog
               /\ loc' = [loc EXCEPT !.i = @ + 1]
               /\ IF o.res = 0 THEN pc' = pc /\ exc' = exc
                  ELSE pc' = "process_response" /\ exc' = PexpectError(o.res)
       \/ /\ loc.i > Len(loc.arg)
          /\ pc' = loc.ret
          /\ UNCHANGED <<loc, log, cmode, match, errlog, exc>>

(* the loop sending 'load' a second time to the first replica that failed *)
sync_conf_instances_retries ==
    /\ UNCHANGED <<cfg, request, exc>>
    /\ pc = "sync_conf_instances"
    /\ \/ /\ loc.i <= Len(loc.arg)
          /\ \E o \in Outcomes(loc.arg[loc.i], "load", prompt_rules) :
               /\ log' = log \o << Sent(loc.arg[loc.i], "load", "", TRUE),
                                   Got(loc.arg[loc.i], "load", o.res) >>
               /\ cmode' = [cmode EXCEPT ![loc.arg[loc.i]] = o.mode]
               /\ match' = o.all
               /\ errlog' = IF o.res = 0 THEN errlog ELSE errlog + 1
               /\ loc' = IF o.res # 0 /\ errlog = 0 THEN loc
                         ELSE [loc EXCEPT !.i = @ + 1]
          /\ pc' = pc
       \/ /\ loc.i > Len(loc.arg)
          /\ pc' = loc.ret
          /\ UNCHANGED <<loc, log, cmode, match, errlog>>

sync_conf_instances ==
    /\ UNCHANGED <<cfg, request, exc>>
    /\ pc = "sync_conf_instances"
    /\ \/ /\ loc.i <= Len(loc.arg)
          /\ \E o \in Outcomes(loc.arg[loc.i], "load", prompt_rules) :
               /\ log' = log \o << Sent(loc.arg[loc.i], "load", "", TRUE),
                                   Got(loc.arg[loc.i], "load", o.res) >>
               /\ cmode' = [cmode EXCEPT ![loc.arg[loc.i]] = o.mode]
               /\ match' = o.all
               /\ errlog' = IF o.res = 0 THEN errlog ELSE errlog + 1
          /\ loc' = [loc EXCEPT !.i = @ + 1]
          /\ pc' = pc
       \/ /\ loc.i > Len(loc.arg)
          /\ pc' = loc.ret
          /\ UNCHANGED <<loc, log, cmode, match, errlog>>

(* if settings.JASMIN_DOCKER or settings.JASMIN_K8S: sync_conf_instances(l) *)
SyncIfMulti(telnet_list, ret) ==
    IF MultiInstance THEN Call_sync_conf_instances(telnet_list, ret) ELSE Goto(ret)

(* telnet.sendline('persist\n'); telnet.expect(r'.*' + STANDARD_PROMPT),   *)
(* then the sync of the replicas and the rest of the view at `ret`         *)
PersistAndSync(nl, telnet_list, ret) ==
    RoundTrip(request.telnet, "persist", "", nl, "persist", prompt_rules,
        LAMBDA r : OnPrompt(r, SyncIfMulti(telnet_list, ret)))

(* a view that only reads request.telnet_list where the middleware set none *)
NeedsTelnetList(step) ==
    IF request.has_telnet_list
    THEN step
    ELSE Raise("AttributeError") /\ UNCHANGED <<log, cmode, match>>

----------------------------------------------------------------------------
(* views/groups.py *)

GroupViewSet_list ==
    /\ UNCHANGED cfg
    /\ pc = "GroupViewSet.list"
    /\ RoundTrip(request.telnet, "group -l", "", FALSE, "list", prompt_rules,
           LAMBDA r : OnPrompt(r, Return))

GroupViewSet_create ==
    /\ UNCHANGED cfg
    /\ \/ /\ pc = "GroupViewSet.create"
          /\ RoundTrip(request.telnet, "group -a", "", FALSE, "begin", adding_rules,
                LAMBDA r :
                    IF r # 0 THEN Raise(PexpectError(r))
                    ELSE IF "gid" \notin request.data.has THEN Raise("MissingKeyError")
                    ELSE Call_set_ikeys(<< "gid" >>, "GroupViewSet.create:persist"))
       \/ /\ pc = "GroupViewSet.create:persist"
          /\ PersistAndSync(FALSE, request.telnet_list, "process_response")

(* the action with the not-found reply taken for a generic failure *)
simple_group_action_no_not_found(cmd) ==
    /\ UNCHANGED cfg
    /\ RoundTrip(request.telnet, cmd, "gid", FALSE, "simple_action", simple_action_rules,
           LAMBDA r :
               IF r = 0 THEN Goto("simple_group_action:persist")
               ELSE IF r \in {1, 2} THEN Raise("ActionFailed")
               ELSE Raise(PexpectError(r)))

(* simple_group_action(telnet, telnet_list, action, gid) *)
simple_group_action(cmd) ==
    /\ UNCHANGED cfg
    /\ RoundTrip(request.telnet, cmd, "gid", FALSE, "simple_action", simple_action_rules,
           LAMBDA r :
               IF r = 0 THEN Goto("simple_group_action:persist")
               ELSE IF r = 1 THEN Raise("ObjectNotFoundError")
               ELSE IF r = 2 THEN Raise("ActionFailed")
               ELSE Raise(PexpectError(r)))

(* the success branch: 'persist\n' is sent and not awaited *)
simple_group_action_persist ==
    /\ UNCHANGED <<cfg, cmode, match>>
    /\ pc = "simple_group_action:persist"
    /\ sendline(request.telnet, "persist", "", TRUE)
    /\ SyncIfMulti(request.telnet_list, "process_response")

GroupViewSet_destroy ==
    /\ pc = "GroupViewSet.destroy"
    /\ NeedsTelnetList(simple_group_action("group -r"))
    /\ UNCHANGED cfg

GroupViewSet_enable ==
    /\ pc = "GroupViewSet.enable"
    /\ NeedsTelnetList(simple_group_action("group -e"))
    /\ UNCHANGED cfg

GroupViewSet_disable ==
    /\ pc = "GroupViewSet.disable"
    /\ NeedsTelnetList(simple_group_action("group -d"))
    /\ UNCHANGED cfg

----------------------------------------------------------------------------
(* views/filters.py *)

(* whether a listing holds the entry looked for is the console's choice *)
Lookup(found, missing) == found \/ missing

(* FiltersViewSet._list, as list() calls it: any exception -> UnknownError *)
FiltersViewSet_list ==
    /\ UNCHANGED cfg
    /\ pc = "FiltersViewSet.list"
    /\ RoundTrip(request.telnet, "filter -l", "", FALSE, "list", prompt_rules,
           LAMBDA r : IF r = 0 THEN Return ELSE Raise("UnknownError"))

(* what _list makes of a 'filter -l' reply: entries with a fid ("Y": the   *)
(* fid of the request, "Z": another) and a type ("X": the text the request *)
(* sent as its type, "W": any other text)                                  *)
FilterEntries == [fid : {"Y", "Z"}, type : {"X", "W"}]

FilterListings == UNION { [1..n -> FilterEntries] : n \in 0..MaxFilters }

(* next((m for m in filters if m['fid'] == fid), None): positions of the hits *)
Hits(filters, fid) == { k \in 1..Len(filters) : filters[k].fid = fid }

(* the lookup that takes the first listed entry, whatever its fid *)
get_filter_any_fid(missing) ==
    RoundTrip(request.telnet, "filter -l", "", FALSE, "list", prompt_rules,
        LAMBDA r :
            IF r # 0 THEN Raise(PexpectError(r))
            ELSE \E filters \in FilterListings :
                    IF filters = << >>
                    THEN /\ pc' = "process_response"
                         /\ exc' = missing
                         /\ loc' = [loc EXCEPT !.listing = filters]
                         /\ UNCHANGED <<request, errlog>>
                    ELSE /\ pc' = "process_response"
                         /\ loc' = [loc EXCEPT !.listing = filters,
                                               !.entry = << filters[1] >>]
                         /\ UNCHANGED <<exc, request, errlog>>)

(* get_filter: _list, then the first entry with this fid or ObjectNotFoundError *)
get_filter(missing) ==
    RoundTrip(request.telnet, "filter -l", "", FALSE, "list", prompt_rules,
        LAMBDA r :
            IF r # 0 THEN Raise(PexpectError(r))
            ELSE \E filters \in FilterListings :
                    IF Hits(filters, "Y") = {}
                    THEN /\ pc' = "process_response"
                         /\ exc' = missing
                         /\ loc' = [loc EXCEPT !.listing = filters]
                         /\ UNCHANGED <<request, errlog>>
                    ELSE /\ pc' = "process_response"
                         /\ loc' = [loc EXCEPT !.listing = filters,
                                               !.entry = << filters[FirstOf(Hits(filters, "Y"))] >>]
                         /\ UNCHANGED <<exc, request, errlog>>)

FiltersViewSet_retrieve ==
    /\ UNCHANGED cfg
    /\ pc = "FiltersViewSet.retrieve"
    /\ get_filter("UnknownError")

FiltersViewSet_create ==
    /\ UNCHANGED cfg
    /\ \/ /\ pc = "FiltersViewSet.create"
          /\ IF ~({"type", "fid"} \subseteq request.data.has)
             THEN Raise("MissingKeyError") /\ UNCHANGED <<log, cmode, match>>
             ELSE RoundTrip(request.telnet, "filter -a", "", FALSE, "begin", adding_rules,
                    LAMBDA r :
                        IF r # 0 THEN Raise(PexpectError(r))
                        ELSE IF request.data.rtype = "transparentfilter"
                        THEN Call_set_ikeys(<< "type", "fid" >>, "FiltersViewSet.create:persist")
                        ELSE IF "parameter" \notin request.data.has
                        THEN Raise("MissingKeyError")
                        ELSE IF request.data.rtype = "nosuchfilter"
                        THEN Raise("JasminError")
                        ELSE Call_set_ikeys(<< "type", "fid", "uid" >>,
                                            "FiltersViewSet.create:persist"))
       \/ /\ pc = "FiltersViewSet.create:persist"
          /\ PersistAndSync(TRUE, request.telnet_list, "FiltersViewSet.create:get_filter")
       \/ /\ pc = "FiltersViewSet.create:get_filter"
          /\ get_filter("ObjectNotFoundError")

simple_filter_action(cmd) ==
    /\ UNCHANGED cfg
    /\ RoundTrip(request.telnet, cmd, "fid", FALSE, "simple_action", simple_action_rules,
           LAMBDA r :
               IF r = 0 THEN Goto("simple_filter_action:persist")
               ELSE IF r = 1 THEN Raise("UnknownError")
               ELSE IF r = 2 THEN Raise("JasminError")
               ELSE Raise(PexpectError(r)))

simple_filter_action_persist ==
    /\ UNCHANGED cfg
    /\ pc = "simple_filter_action:persist"
    /\ PersistAndSync(TRUE, request.telnet_list, "process_response")

FiltersViewSet_destroy ==
    /\ pc = "FiltersViewSet.destroy"
    /\ NeedsTelnetList(simple_filter_action("filter -r"))
    /\ UNCHANGED cfg

----------------------------------------------------------------------------
(* views/users.py *)

(* get_user(telnet, uid, silent=False) *)
get_user(found, missing) ==
    RoundTrip(request.telnet, "user -s", "uid", FALSE, "show", show_rules,
        LAMBDA r : IF r = 2 THEN found
                   ELSE IF r \in {0, 1} THEN missing
                   ELSE Raise(PexpectError(r)))

(* retrieve saving the configuration after the lookup *)
UserViewSet_retrieve_persists ==
    /\ UNCHANGED cfg
    /\ \/ /\ pc = "UserViewSet.retrieve"
          /\ get_user(Goto("UserViewSet.retrieve:persist"), Raise("UnknownError"))
       \/ /\ pc = "UserViewSet.retrieve:persist"
          /\ PersistAndSync(TRUE, TelnetListOrEmpty, "process_response")

UserViewSet_retrieve ==
    /\ UNCHANGED cfg
    /\ pc = "UserViewSet.retrieve"
    /\ get_user(Return, Raise("UnknownError"))

(* list: 'user -l', then get_user(silent=True) for every listed uid *)
UserViewSet_list ==
    /\ UNCHANGED cfg
    /\ \/ /\ pc = "UserViewSet.list"
          /\ RoundTrip(request.telnet, "user -l", "", FALSE, "list", prompt_rules,
                LAMBDA r : OnPrompt(r,
                    \E n \in 0..MaxRows :
                        /\ pc' = IF n = 0 THEN "process_response" ELSE "UserViewSet.list:get_user"
                        /\ loc' = [loc EXCEPT !.rows = n]
                        /\ UNCHANGED <<exc, request, errlog>>))
       \/ /\ pc = "UserViewSet.list:get_user"
          /\ LET next == /\ pc' = IF loc.rows = 1 THEN "process_response" ELSE pc
                         /\ loc' = [loc EXCEPT !.rows = @ - 1]
                         /\ UNCHANGED <<exc, request, errlog>>
             IN  get_user(next, next)

UserViewSet_create ==
    /\ UNCHANGED cfg
    /\ \/ /\ pc = "UserViewSet.create"
          /\ IF ~({"uid", "gid", "username", "password"} \subseteq request.data.has)
             THEN Raise("MissingKeyError") /\ UNCHANGED <<log, cmode, match>>
             ELSE RoundTrip(request.telnet, "user -a", "", FALSE, "begin", adding_rules,
                    LAMBDA r :
                        IF r # 0 THEN Raise(PexpectError(r))
                        ELSE Call_set_ikeys(<< "uid", "gid", "username", "password" >>,
                                            "UserViewSet.create:persist"))
       \/ /\ pc = "UserViewSet.create:persist"
          /\ PersistAndSync(TRUE, TelnetListOrEmpty, "UserViewSet.create:get_user")
       \/ /\ pc = "UserViewSet.create:get_user"
          /\ get_user(Return, Raise("ObjectNotFoundError"))

(* simple_user_action(telnet, telnet_list, action, uid, return_user=True) *)
simple_user_action(cmd) ==
    /\ UNCHANGED cfg
    /\ RoundTrip(request.telnet, cmd, "uid", FALSE, "simple_action", simple_action_rules,
           LAMBDA r :
               IF r = 0 THEN Goto("simple_user_action:persist")
               ELSE IF r = 1 THEN Raise("UnknownError")
               ELSE IF r = 2 THEN Raise("JasminError")
               ELSE Raise(PexpectError(r)))

(* after the sync, one more expect of the ready prompt with nothing sent,  *)
(* then get_user                                                           *)
simple_user_action_persist ==
    /\ UNCHANGED cfg
    /\ \/ /\ pc = "simple_user_action:persist"
          /\ PersistAndSync(TRUE, TelnetListOrEmpty, "simple_user_action:expect")
       \/ /\ pc = "simple_user_action:expect"
          /\ \E r \in CueOutcomes :
               /\ log' = Append(log, Got(request.telnet, "extra", r))
               /\ cmode' = [cmode EXCEPT ![request.telnet] = IF r = EOF THEN "dead" ELSE @]
               /\ match' = IF r = 0 THEN {0} ELSE {}
               /\ OnPrompt(r, Goto("simple_user_action:get_user"))
       \/ /\ pc = "simple_user_action:get_user"
          /\ get_user(Return, Raise("ObjectNotFoundError"))

UserViewSet_enable ==
    /\ pc = "UserViewSet.enable"
    /\ simple_user_action("user -e")

UserViewSet_disable ==
    /\ pc = "UserViewSet.disable"
    /\ simple_user_action("user -d")

UserViewSet_smpp_unbind ==
    /\ pc = "UserViewSet.smpp_unbind"
    /\ simple_user_action("user --smpp-unbind")

UserViewSet_smpp_ban ==
    /\ pc = "UserViewSet.smpp_ban"
    /\ simple_user_action("user --smpp-ban")

UserViewSet_partial_update ==
    /\ UNCHANGED cfg
    /\ \/ /\ pc = "UserViewSet.partial_update"
          /\ RoundTrip(request.telnet, "user -u", "uid", FALSE, "begin", updating_rules,
                LAMBDA r :
                    IF r = 1 THEN Raise("UnknownError")
                    ELSE IF r = 2 THEN Raise("JasminError")
                    ELSE IF r # 0 THEN Raise(PexpectError(r))
                    ELSE IF request.data.updates = 0 THEN Raise("JasminSyntaxError")
                    ELSE /\ pc' = "UserViewSet.partial_update:update"
                         /\ loc' = [loc EXCEPT !.i = 1]
                         /\ UNCHANGED <<exc, request, errlog>>)
       \/ /\ pc = "UserViewSet.partial_update:update"
          /\ loc.i <= request.data.updates
          /\ IF loc.i = request.data.bad
             THEN Raise("JasminSyntaxError") /\ UNCHANGED <<log, cmode, match>>
             ELSE RoundTrip(request.telnet, "kv", "update", TRUE, "update", user_update_rules,
                    LAMBDA r :
                        IF r = 2
                        THEN /\ pc' = pc
                             /\ loc' = [loc EXCEPT !.i = @ + 1]
                             /\ UNCHANGED <<exc, request, errlog>>
                        ELSE IF r \in {0, 1, 3} THEN Raise("JasminSyntaxError")
                        ELSE Raise(PexpectError(r)))
       \/ /\ pc = "UserViewSet.partial_update:update"
          /\ loc.i > request.data.updates
          /\ RoundTrip(request.telnet, "ok", "", TRUE, "ok", user_ok_rules,
                LAMBDA r :
                    IF r = 0 THEN Raise("JasminSyntaxError")
                    ELSE IF r = 1 THEN Goto("UserViewSet.partial_update:persist")
                    ELSE Raise(PexpectError(r)))
       \/ /\ pc = "UserViewSet.partial_update:persist"
          /\ PersistAndSync(TRUE, TelnetListOrEmpty, "UserViewSet.partial_update:get_user")
       \/ /\ pc = "UserViewSet.partial_update:get_user"
          /\ get_user(Return, Raise("ObjectNotFoundError"))

----------------------------------------------------------------------------
(* views/smppccm.py *)

get_smppccm(found, missing) ==
    RoundTrip(request.telnet, "smppccm -s", "cid", FALSE, "show", show_rules,
        LAMBDA r : IF r = 2 THEN found
                   ELSE IF r \in {0, 1} THEN missing
                   ELSE Raise(PexpectError(r)))

(* get_connector_list(telnet) on session s, continued with the row count *)
smppccm_get_connector_list(s, K(_)) ==
    RoundTrip(s, "smppccm -l", "", FALSE, "list", prompt_rules,
        LAMBDA r : OnPrompt(r, \E n \in 0..MaxRows : K(n)))

simple_smppccm_action(cmd) ==
    /\ UNCHANGED cfg
    /\ RoundTrip(request.telnet, cmd, "cid", FALSE, "simple_action", simple_action_rules,
           LAMBDA r :
               IF r = 0 THEN Goto("simple_smppccm_action:persist")
               ELSE IF r = 1 THEN Raise("ObjectNotFoundError")
               ELSE IF r = 2 THEN Raise("ActionFailed")
               ELSE Raise(PexpectError(r)))

simple_smppccm_action_persist ==
    /\ UNCHANGED cfg
    /\ pc = "simple_smppccm_action:persist"
    /\ PersistAndSync(TRUE, TelnetListOrEmpty, "process_response")

(* the status listing asking the primary alone *)
SMPPCCMViewSet_list_smppc_status_primary_only ==
    /\ UNCHANGED cfg
    /\ \/ /\ pc = "SMPPCCMViewSet.list_smppc_status"
          /\ pc' = "SMPPCCMViewSet.list_smppc_status:loop"
          /\ loc' = [loc EXCEPT !.arg = << request.telnet >>, !.i = 1]
          /\ UNCHANGED <<exc, request, errlog, log, cmode, match>>
       \/ /\ pc = "SMPPCCMViewSet.list_smppc_status:loop"
          /\ smppccm_get_connector_list(loc.arg[loc.i],
                LAMBDA n :
                    /\ pc' = IF loc.i < Len(loc.arg) THEN pc ELSE "process_response"
                    /\ loc' = [loc EXCEPT !.i = @ + 1,
                                          !.instances = Append(@, [s |-> loc.arg[loc.i],
                                                                   rows |-> n])]
                    /\ UNCHANGED <<exc, request, errlog>>)

(* list_smppc_status: one connector list per session of                    *)
(* [request.telnet] + getattr(request, 'telnet_list', []), appended to     *)
(* `instances` (here: the session asked and the number of its rows)        *)
SMPPCCMViewSet_list_smppc_status ==
    /\ UNCHANGED cfg
    /\ \/ /\ pc = "SMPPCCMViewSet.list_smppc_status"
          /\ pc' = "SMPPCCMViewSet.list_smppc_status:loop"
          /\ loc' = [loc EXCEPT !.arg = << request.telnet >> \o TelnetListOrEmpty, !.i = 1]
          /\ UNCHANGED <<exc, request, errlog, log, cmode, match>>
       \/ /\ pc = "SMPPCCMViewSet.list_smppc_status:loop"
          /\ smppccm_get_connector_list(loc.arg[loc.i],
                LAMBDA n :
                    /\ pc' = IF loc.i < Len(loc.arg) THEN pc ELSE "process_response"
                    /\ loc' = [loc EXCEPT !.i = @ + 1,
                                          !.instances = Append(@, [s |-> loc.arg[loc.i],
                                                                   rows |-> n])]
                    /\ UNCHANGED <<exc, request, errlog>>)

SMPPCCMViewSet_list ==
    /\ UNCHANGED cfg
    /\ \/ /\ pc = "SMPPCCMViewSet.list"
          /\ smppccm_get_connector_list(request.telnet,
                LAMBDA n :
                    /\ pc' = IF n = 0 THEN "process_response" ELSE "SMPPCCMViewSet.list:get_smppccm"
                    /\ loc' = [loc EXCEPT !.rows = n]
                    /\ UNCHANGED <<exc, request, errlog>>)
       \/ /\ pc = "SMPPCCMViewSet.list:get_smppccm"
          /\ LET next == /\ pc' = IF loc.rows = 1 THEN "process_response" ELSE pc
                         /\ loc' = [loc EXCEPT !.rows = @ - 1]
                         /\ UNCHANGED <<exc, request, errlog>>
             IN  get_smppccm(next, next)

SMPPCCMViewSet_retrieve ==
    /\ UNCHANGED cfg
    /\ \/ /\ pc = "SMPPCCMViewSet.retrieve"
          /\ get_smppccm(Goto("SMPPCCMViewSet.retrieve:list"), Raise("ObjectNotFoundError"))
       \/ /\ pc = "SMPPCCMViewSet.retrieve:list"
          /\ smppccm_get_connector_list(request.telnet,
                LAMBDA n : Lookup(n > 0 /\ Return, Raise("ObjectNotFoundError")))

SMPPCCMViewSet_create ==
    /\ UNCHANGED cfg
    /\ \/ /\ pc = "SMPPCCMViewSet.create"
          /\ IF "cid" \notin request.data.has
             THEN Raise("MissingKeyError") /\ UNCHANGED <<log, cmode, match>>
             ELSE RoundTrip(request.telnet, "smppccm -a", "", FALSE, "begin", adding_rules,
                    LAMBDA r :
                        IF r # 0 THEN Raise(PexpectError(r))
                        ELSE Call_set_ikeys(<< "cid" >>, "SMPPCCMViewSet.create:persist"))
       \/ /\ pc = "SMPPCCMViewSet.create:persist"
          /\ PersistAndSync(TRUE, TelnetListOrEmpty, "process_response")

SMPPCCMViewSet_destroy ==
    /\ pc = "SMPPCCMViewSet.destroy"
    /\ simple_smppccm_action("smppccm -r")

SMPPCCMViewSet_start ==
    /\ pc = "SMPPCCMViewSet.start"
    /\ simple_smppccm_action("smppccm -1")

SMPPCCMViewSet_stop ==
    /\ pc = "SMPPCCMViewSet.stop"
    /\ simple_smppccm_action("smppccm -0")

SMPPCCMViewSet_custom_partial_update ==
    /\ UNCHANGED cfg
    /\ \/ /\ pc = "SMPPCCMViewSet.custom_partial_update"
          /\ RoundTrip(request.telnet, "smppccm -u", "cid", FALSE, "begin", updating_rules,
                LAMBDA r :
                    IF r = 1 THEN Raise("UnknownError")
                    ELSE IF r = 2 THEN Raise("JasminError")
                    ELSE IF r # 0 THEN Raise(PexpectError(r))
                    ELSE IF request.data.updates = 0 THEN Raise("JasminSyntaxError")
                    ELSE /\ pc' = "SMPPCCMViewSet.custom_partial_update:update"
                         /\ loc' = [loc EXCEPT !.i = 1]
                         /\ UNCHANGED <<exc, request, errlog>>)
       \/ /\ pc = "SMPPCCMViewSet.custom_partial_update:update"
          /\ loc.i <= request.data.updates
          /\ RoundTrip(request.telnet, "kv", "update", TRUE, "update", smppccm_update_rules,
                LAMBDA r :
                    IF r = 2
                    THEN /\ pc' = pc
                         /\ loc' = [loc EXCEPT !.i = @ + 1]
                         /\ UNCHANGED <<exc, request, errlog>>
                    ELSE IF r \in {0, 1, 3} THEN Raise("JasminSyntaxError")
                    ELSE Raise(PexpectError(r)))
       \/ /\ pc = "SMPPCCMViewSet.custom_partial_update:update"
          /\ loc.i > request.data.updates
          /\ RoundTrip(request.telnet, "ok", "", TRUE, "ok", smppccm_ok_rules,
                LAMBDA r :
                    IF r = 0 THEN Raise("JasminSyntaxError")
                    ELSE IF r \in {1, 2} THEN Goto("SMPPCCMViewSet.custom_partial_update:persist")
                    ELSE Raise(PexpectError(r)))
       \/ /\ pc = "SMPPCCMViewSet.custom_partial_update:persist"
          /\ PersistAndSync(TRUE, TelnetListOrEmpty,
                            "SMPPCCMViewSet.custom_partial_update:get_smppccm")
       \/ /\ pc = "SMPPCCMViewSet.custom_partial_update:get_smppccm"
          /\ get_smppccm(Return, Raise("ObjectNotFoundError"))

----------------------------------------------------------------------------
(* views/httpccm.py *)

get_httpccm(found, missing) ==
    RoundTrip(request.telnet, "httpccm -s", "cid", FALSE, "show", show_rules,
        LAMBDA r : IF r = 2 THEN found
                   ELSE IF r \in {0, 1} THEN missing
                   ELSE Raise(PexpectError(r)))

httpccm_get_connector_list(K(_)) ==
    RoundTrip(request.telnet, "httpccm -l", "", FALSE, "list", prompt_rules,
        LAMBDA r : OnPrompt(r, \E n \in 0..MaxRows : K(n)))

HTTPCCMViewSet_list ==
    /\ UNCHANGED cfg
    /\ \/ /\ pc = "HTTPCCMViewSet.list"
          /\ httpccm_get_connector_list(
                LAMBDA n :
                    /\ pc' = IF n = 0 THEN "process_response" ELSE "HTTPCCMViewSet.list:get_httpccm"
                    /\ loc' = [loc EXCEPT !.rows = n]
                    /\ UNCHANGED <<exc, request, errlog>>)
       \/ /\ pc = "HTTPCCMViewSet.list:get_httpccm"
          /\ LET next == /\ pc' = IF loc.rows = 1 THEN "process_response" ELSE pc
                         /\ loc' = [loc EXCEPT !.rows = @ - 1]
                         /\ UNCHANGED <<exc, request, errlog>>
             IN  get_httpccm(next, next)

HTTPCCMViewSet_retrieve ==
    /\ UNCHANGED cfg
    /\ \/ /\ pc = "HTTPCCMViewSet.retrieve"
          /\ get_httpccm(Goto("HTTPCCMViewSet.retrieve:list"), Raise("ObjectNotFoundError"))
       \/ /\ pc = "HTTPCCMViewSet.retrieve:list"
          /\ httpccm_get_connector_list(
                LAMBDA n : Lookup(n > 0 /\ Return, Raise("ObjectNotFoundError")))

(* what the console is at after lines it was sent and not asked about *)
ConsoleAfter(mode, cmd) ==
    IF mode = "std" THEN (IF cmd \in BeginCmds THEN {"std", "int"} ELSE {"std"})
    ELSE IF mode = "int" THEN {"std", "int"}
    ELSE {mode}

(* create: 'httpccm -a', every item of the body and 'ok' are sent in a row; *)
(* only the reply to 'ok' is awaited                                        *)
HTTPCCMViewSet_create ==
    /\ UNCHANGED cfg
    /\ \/ /\ pc = "HTTPCCMViewSet.create"
          /\ log' = log \o << Sent(request.telnet, "httpccm -a", "", FALSE) >>
                        \o [k \in 1..request.data.updates |->
                               Sent(request.telnet, "kv", "item", FALSE)]
          /\ \E m \in ConsoleAfter(cmode[request.telnet], "httpccm -a") :
               cmode' = [cmode EXCEPT ![request.telnet] = m]
          /\ match' = match
          /\ Goto("HTTPCCMViewSet.create:ok")
       \/ /\ pc = "HTTPCCMViewSet.create:ok"
          /\ RoundTrip(request.telnet, "ok", "", FALSE, "ok", httpccm_ok_rules,
                LAMBDA r :
                    IF r = 2 THEN Goto("HTTPCCMViewSet.create:persist")
                    ELSE IF r \in {0, 1, 3} THEN Raise("JasminSyntaxError")
                    ELSE Raise(PexpectError(r)))
       \/ /\ pc = "HTTPCCMViewSet.create:persist"
          /\ PersistAndSync(TRUE, request.telnet_list, "HTTPCCMViewSet.create:return")
       \/ /\ pc = "HTTPCCMViewSet.create:return"
          /\ UNCHANGED <<log, cmode, match>>
          /\ IF "cid" \in request.data.has THEN Return ELSE Raise("KeyError")

simple_httpccm_action(cmd) ==
    /\ UNCHANGED cfg
    /\ RoundTrip(request.telnet, cmd, "cid", FALSE, "simple_action", simple_action_rules,
           LAMBDA r :
               IF r = 0 THEN Goto("simple_httpccm_action:persist")
               ELSE IF r = 1 THEN Raise("ObjectNotFoundError")
               ELSE IF r = 2 THEN Raise("ActionFailed")
               ELSE Raise(PexpectError(r)))

(* destroy passes request.telnet as telnet_list: sync_conf_instances then  *)
(* iterates the pexpect session itself, which yields the lines it reads.   *)
(* Each line read is a bytes object with no sendline (AttributeError,      *)
(* caught and logged); the read ends the loop at EOF and raises out of the *)
(* view on a timeout.  No session is sent 'load'.                          *)
simple_httpccm_action_persist ==
    /\ UNCHANGED cfg
    /\ \/ /\ pc = "simple_httpccm_action:persist"
          /\ RoundTrip(request.telnet, "persist", "", TRUE, "persist", prompt_rules,
                LAMBDA r : OnPrompt(r,
                    IF MultiInstance THEN Goto("simple_httpccm_action:sync") ELSE Return))
       \/ /\ pc = "simple_httpccm_action:sync"
          /\ \E r \in (IF errlog < MaxLines THEN {0} ELSE {}) \cup { TIMEOUT, EOF } :
               /\ log' = Append(log, Got(request.telnet, "readline", r))
               /\ cmode' = [cmode EXCEPT ![request.telnet] = IF r = EOF THEN "dead" ELSE @]
               /\ match' = IF r = 0 THEN {0} ELSE {}
               /\ request' = request
               /\ loc' = loc
               /\ IF r = 0 THEN pc' = pc /\ errlog' = errlog + 1 /\ exc' = exc
                  ELSE IF r = EOF THEN pc' = "process_response" /\ errlog' = errlog /\ exc' = exc
                  ELSE pc' = "process_response" /\ errlog' = errlog /\ exc' = "pexpect.TIMEOUT"

HTTPCCMViewSet_destroy ==
    /\ pc = "HTTPCCMViewSet.destroy"
    /\ simple_httpccm_action("httpccm -r")

----------------------------------------------------------------------------
(* views/morouter.py *)

MORouterViewSet_list ==
    /\ UNCHANGED cfg
    /\ pc = "MORouterViewSet.list"
    /\ RoundTrip(request.telnet, "morouter -l", "", FALSE, "list", prompt_rules,
           LAMBDA r : OnPrompt(r, Return))

(* get_router: _list, then the route with this order or ObjectNotFoundError *)
morouter_get_router(missing) ==
    RoundTrip(request.telnet, "morouter -l", "", FALSE, "list", prompt_rules,
        LAMBDA r : OnPrompt(r, Lookup(Return, Raise(missing))))

MORouterViewSet_retrieve ==
    /\ UNCHANGED cfg
    /\ pc = "MORouterViewSet.retrieve"
    /\ morouter_get_router("ObjectNotFoundError")

MORouterViewSet_flush ==
    /\ UNCHANGED cfg
    /\ \/ /\ pc = "MORouterViewSet.flush"
          /\ RoundTrip(request.telnet, "morouter -f", "", FALSE, "flush", prompt_rules,
                LAMBDA r : OnPrompt(r, Goto("MORouterViewSet.flush:persist")))
       \/ /\ pc = "MORouterViewSet.flush:persist"
          /\ PersistAndSync(TRUE, request.telnet_list, "process_response")

(* the draft of a route, in the order create() fills the OrderedDict *)
morouter_ikeys(rtype) ==
    << "type" >>
    \o (IF rtype # "defaultroute" THEN << "filters", "order" >> ELSE << >>)
    \o (IF rtype = "randomroundrobinroute" THEN << "connectors" >> ELSE << "connector" >>)

MORouterViewSet_create ==
    /\ UNCHANGED cfg
    /\ \/ /\ pc = "MORouterViewSet.create"
          /\ IF ~({"type", "order"} \subseteq request.data.has)
             THEN Raise("MissingKeyError") /\ UNCHANGED <<log, cmode, match>>
             ELSE RoundTrip(request.telnet, "morouter -a", "", FALSE, "begin", adding_rules,
                    LAMBDA r :
                        IF r # 0 THEN Raise(PexpectError(r))
                        ELSE IF request.data.rtype # "defaultroute"
                                /\ "filters" \notin request.data.has
                        THEN Raise("MissingKeyError")
                        ELSE IF request.data.rtype = "randomroundrobinroute"
                                /\ request.data.nconn < 2
                        THEN Raise("MutipleValuesRequiredKeyError")
                        ELSE IF request.data.rtype # "randomroundrobinroute"
                                /\ request.data.nconn # 1
                        THEN Raise("MissingKeyError")
                        ELSE Call_set_ikeys(morouter_ikeys(request.data.rtype),
                                            "MORouterViewSet.create:persist"))
       \/ /\ pc = "MORouterViewSet.create:persist"
          /\ PersistAndSync(TRUE, request.telnet_list, "MORouterViewSet.create:get_router")
       \/ /\ pc = "MORouterViewSet.create:get_router"
          /\ morouter_get_router("ObjectNotFoundError")

(* the helper persisting whatever the classification of the reply *)
simple_morouter_action_always_persists(cmd) ==
    /\ UNCHANGED cfg
    /\ RoundTrip(request.telnet, cmd, "order", FALSE, "simple_action", simple_action_rules,
           LAMBDA r :
               IF r \in {0, 1, 2} THEN Goto("simple_morouter_action:persist")
               ELSE Raise(PexpectError(r)))

simple_morouter_action(cmd) ==
    /\ UNCHANGED cfg
    /\ RoundTrip(request.telnet, cmd, "order", FALSE, "simple_action", simple_action_rules,
           LAMBDA r :
               IF r = 0 THEN Goto("simple_morouter_action:persist")
               ELSE IF r = 1 THEN Raise("UnknownError")
               ELSE IF r = 2 THEN Raise("JasminError")
               ELSE Raise(PexpectError(r)))

simple_morouter_action_persist ==
    /\ UNCHANGED cfg
    /\ pc = "simple_morouter_action:persist"
    /\ PersistAndSync(TRUE, request.telnet_list, "process_response")

MORouterViewSet_destroy ==
    /\ pc = "MORouterViewSet.destroy"
    /\ NeedsTelnetList(simple_morouter_action("morouter -r"))
    /\ UNCHANGED cfg

----------------------------------------------------------------------------
(* views/mtrouter.py *)

MTRouterViewSet_list ==
    /\ UNCHANGED cfg
    /\ pc = "MTRouterViewSet.list"
    /\ RoundTrip(request.telnet, "mtrouter -l", "", FALSE, "list", prompt_rules,
           LAMBDA r : IF r = 0 THEN Return ELSE Raise("UnknownError"))

(* get_router: _list, then the route with this order or ObjectNotFoundError *)
mtrouter_get_router(missing) ==
    RoundTrip(request.telnet, "mtrouter -l", "", FALSE, "list", prompt_rules,
        LAMBDA r : OnPrompt(r, Lookup(Return, Raise(missing))))

MTRouterViewSet_retrieve ==
    /\ UNCHANGED cfg
    /\ pc = "MTRouterViewSet.retrieve"
    /\ mtrouter_get_router("UnknownError")

MTRouterViewSet_flush ==
    /\ UNCHANGED cfg
    /\ \/ /\ pc = "MTRouterViewSet.flush"
          /\ RoundTrip(request.telnet, "mtrouter -f", "", FALSE, "flush", prompt_rules,
                LAMBDA r : OnPrompt(r, Goto("MTRouterViewSet.flush:persist")))
       \/ /\ pc = "MTRouterViewSet.flush:persist"
          /\ PersistAndSync(TRUE, request.telnet_list, "process_response")

(* the draft of a route, in the order create() fills the OrderedDict *)
mtrouter_ikeys(rtype) ==
    << "type" >>
    \o (IF rtype # "defaultroute" THEN << "filters", "order" >> ELSE << >>)
    \o (IF rtype = "randomroundrobinroute" THEN << "connectors" >> ELSE << "connector" >>) \o << "rate" >>

(* create() taking a route of any other type with one connector or more *)
MTRouterViewSet_create_first_connector ==
    /\ UNCHANGED cfg
    /\ \/ /\ pc = "MTRouterViewSet.create"
          /\ IF ~({"type", "order", "rate"} \subseteq request.data.has)
             THEN Raise("MissingKeyError") /\ UNCHANGED <<log, cmode, match>>
             ELSE RoundTrip(request.telnet, "mtrouter -a", "", FALSE, "begin", adding_rules,
                    LAMBDA r :
                        IF r # 0 THEN Raise(PexpectError(r))
                        ELSE IF request.data.rtype # "defaultroute"
                                /\ "filters" \notin request.data.has
                        THEN Raise("MissingKeyError")
                        ELSE IF request.data.rtype = "randomroundrobinroute"
                                /\ request.data.nconn < 2
                        THEN Raise("MultipleValuesRequiredKeyError")
                        ELSE IF request.data.rtype # "randomroundrobinroute"
                                /\ request.data.nconn < 1
                        THEN Raise("MissingKeyError")
                        ELSE Call_set_ikeys(mtrouter_ikeys(request.data.rtype),
                                            "MTRouterViewSet.create:persist"))
       \/ /\ pc = "MTRouterViewSet.create:persist"
          /\ PersistAndSync(TRUE, request.telnet_list, "MTRouterViewSet.create:get_router")
       \/ /\ pc = "MTRouterViewSet.create:get_router"
          /\ mtrouter_get_router("ObjectNotFoundError")

MTRouterViewSet_create ==
    /\ UNCHANGED cfg
    /\ \/ /\ pc = "MTRouterViewSet.create"
          /\ IF ~({"type", "order", "rate"} \subseteq request.data.has)
             THEN Raise("MissingKeyError") /\ UNCHANGED <<log, cmode, match>>
             ELSE RoundTrip(request.telnet, "mtrouter -a", "", FALSE, "begin", adding_rules,
                    LAMBDA r :
                        IF r # 0 THEN Raise(PexpectError(r))
                        ELSE IF request.data.rtype # "defaultroute"
                                /\ "filters" \notin request.data.has
                        THEN Raise("MissingKeyError")
                        ELSE IF request.data.rtype = "randomroundrobinroute"
                                /\ request.data.nconn < 2
                        THEN Raise("MultipleValuesRequiredKeyError")
                        ELSE IF request.data.rtype # "randomroundrobinroute"
                                /\ request.data.nconn # 1
                        THEN Raise("MissingKeyError")
                        ELSE Call_set_ikeys(mtrouter_ikeys(request.data.rtype),
                                            "MTRouterViewSet.create:persist"))
       \/ /\ pc = "MTRouterViewSet.create:persist"
          /\ PersistAndSync(TRUE, request.telnet_list, "MTRouterViewSet.create:get_router")
       \/ /\ pc = "MTRouterViewSet.create:get_router"
          /\ mtrouter_get_router("ObjectNotFoundError")

simple_mtrouter_action(cmd) ==
    /\ UNCHANGED cfg
    /\ RoundTrip(request.telnet, cmd, "order", FALSE, "simple_action", simple_action_rules,
           LAMBDA r :
               IF r = 0 THEN Goto("simple_mtrouter_action:persist")
               ELSE IF r = 1 THEN Raise("UnknownError")
               ELSE IF r = 2 THEN Raise("JasminError")
               ELSE Raise(PexpectError(r)))

simple_mtrouter_action_persist ==
    /\ UNCHANGED cfg
    /\ pc = "simple_mtrouter_action:persist"
    /\ PersistAndSync(TRUE, request.telnet_list, "process_response")

MTRouterViewSet_destroy ==
    /\ pc = "MTRouterViewSet.destroy"
    /\ NeedsTelnetList(simple_mtrouter_action("mtrouter -r"))
    /\ UNCHANGED cfg

----------------------------------------------------------------------------

Next ==
    \/ process_request
    \/ set_telnet_list
    \/ telnet_request
    \/ process_request_prompt
    \/ get_response
    \/ process_response
    \/ set_ikeys
    \/ sync_conf_instances
    \/ GroupViewSet_list
    \/ GroupViewSet_create
    \/ simple_group_action_persist
    \/ GroupViewSet_destroy
    \/ GroupViewSet_enable
    \/ GroupViewSet_disable
    \/ FiltersViewSet_list
    \/ FiltersViewSet_retrieve
    \/ FiltersViewSet_create
    \/ simple_filter_action_persist
    \/ FiltersViewSet_destroy
    \/ UserViewSet_retrieve
    \/ UserViewSet_list
    \/ UserViewSet_create
    \/ simple_user_action_persist
    \/ UserViewSet_enable
    \/ UserViewSet_disable
    \/ UserViewSet_smpp_unbind
    \/ UserViewSet_smpp_ban
    \/ UserViewSet_partial_update
    \/ simple_smppccm_action_persist
    \/ SMPPCCMViewSet_list_smppc_status
    \/ SMPPCCMViewSet_list
    \/ SMPPCCMViewSet_retrieve
    \/ SMPPCCMViewSet_create
    \/ SMPPCCMViewSet_destroy
    \/ SMPPCCMViewSet_start
    \/ SMPPCCMViewSet_stop
    \/ SMPPCCMViewSet_custom_partial_update
    \/ HTTPCCMViewSet_list
    \/ HTTPCCMViewSet_retrieve
    \/ HTTPCCMViewSet_create
    \/ simple_httpccm_action_persist
    \/ HTTPCCMViewSet_destroy
    \/ MORouterViewSet_list
    \/ MORouterViewSet_retrieve
    \/ MORouterViewSet_flush
    \/ MORouterViewSet_create
    \/ MORouterViewSet_destroy
    \/ simple_morouter_action_persist
    \/ MTRouterViewSet_list
    \/ MTRouterViewSet_retrieve
    \/ MTRouterViewSet_flush
    \/ MTRouterViewSet_create
    \/ MTRouterViewSet_destroy
    \/ simple_mtrouter_action_persist

Spec == Init /\ [][Next]_vars

----------------------------------------------------------------------------
(* Reading the log *)

Sends(s, cmd) ==
    { i \in 1..Len(log) : log[i].t = "send" /\ log[i].s = s /\ log[i].cmd = cmd }

(* session s was seen at the ready prompt at the end of its login *)
ReachedReady(s) ==
    \E i \in 1..Len(log) : log[i] = Got(s, "STANDARD_PROMPT", 0)

WasSpawned(s) == \E i \in 1..Len(log) : log[i] = Spawned(s)

LoginCmds == { "USERNAME", "PASSWORD" }

ReadOnlyCmds == { "group -l", "filter -l", "user -l", "user -s", "smppccm -l",
                  "smppccm -s", "httpccm -l", "httpccm -s", "morouter -l",
                  "mtrouter -l" }

(* the request is over: it went through process_response, or process_request raised *)
Finished == pc \in { "done", "failed" }

(* the positions of the middleware's own code *)
OpeningPcs == { "process_request", "set_telnet_list", "telnet_request",
                "telnet_request:user", "telnet_request:pw", "process_request:prompt" }

(* a view of the /api/ router is running or has run *)
ViewEntered == request.api /\ pc \notin OpeningPcs \cup { "failed", "get_response" }

----------------------------------------------------------------------------
(* Session lifecycle *)

(* C1: every session the middleware brought to the ready prompt has been   *)
(* closed exactly once (one 'quit', followed by a kill when the prompt     *)
(* does not come back) by the time the request is over, on every exit      *)
(* path, a failure part-way through opening the pool included.             *)
C1_EverySessionClosedOnce ==
    Finished =>
        \A s \in Sessions : ReachedReady(s) => Cardinality(Sends(s, "quit")) = 1

LoginSites == { "Username: ", "Password: ", "STANDARD_PROMPT" }

(* the exception process_request ends with, read off the wait that failed *)
OpenFailure ==
    IF log = << >> THEN "TelnetLoginFailed"
    ELSE LET last == log[Len(log)] IN
         IF last.cmd = "STANDARD_PROMPT"
         THEN (IF last.res = EOF THEN "TelnetLoginFailed" ELSE "pexpect.TIMEOUT")
         ELSE (IF last.res = EOF THEN "TelnetUnexpectedResponse"
                                 ELSE "TelnetConnectionTimeout")

C3_MutationsOnPrimaryOnly ==
    /\ ViewEntered => request.telnet \in Sessions
    /\ \A k \in 1..Len(request.telnet_list) : request.telnet_list[k] # request.telnet
    /\ \A i \in 1..Len(log) :
          (log[i].t = "send" /\ log[i].cmd \notin LoginCmds /\ log[i].s # request.telnet)
              => log[i].cmd \in ReadOnlyCmds \cup { "load", "quit" }

C3_Witness ==
    /\ Len(request.telnet_list) > 0
    /\ Sends(request.telnet, "persist") # {}
    /\ Sends(request.telnet_list[1], "load") # {}
    /\ Sends(request.telnet_list[1], "quit") # {}

(* C4: on every session the username is sent only right after the         *)
(* 'Username: ' cue was seen, the password only right after the            *)
(* 'Password: ' cue, and any console command only after the ready prompt   *)
(* that followed the password; a view runs only on such a session.         *)
C4_LoginOrder ==
    /\ \A i \in 1..Len(log) :
          log[i].t = "send" =>
              IF log[i].cmd = "USERNAME"
              THEN i > 1 /\ log[i - 1] = Got(log[i].s, "Username: ", 0)
              ELSE IF log[i].cmd = "PASSWORD"
              THEN i > 1 /\ log[i - 1] = Got(log[i].s, "Password: ", 0)
              ELSE \E j \in 1..(i - 1) :
                      /\ log[j] = Got(log[i].s, "STANDARD_PROMPT", 0)
                      /\ j > 1
                      /\ log[j - 1] = Sent(log[i].s, "PASSWORD", "", FALSE)
    /\ ViewEntered => ReachedReady(request.telnet)

C4_Witness ==
    \E i \in 1..Len(log) :
        /\ log[i].t = "send"
        /\ log[i].cmd = "load"
        /\ log[i].s = 2

(* C5: the pool opens with the first endpoint, in resolver order, that     *)
(* reaches the ready prompt as primary, also when an earlier endpoint      *)
(* failed: pool open fails only when every resolved endpoint was tried     *)
(* and none reached the ready prompt.                                      *)
C5_OpensWithFirstReadyEndpoint ==
    (pc = "failed" /\ log # << >>) =>
        \A s \in 1..settings.endpoints : WasSpawned(s) /\ ~ReachedReady(s)

----------------------------------------------------------------------------
(* Interactive drafts *)

(* the positions in the log of the lines set_ikeys sent: key/value pairs and 'ok' *)
KeySends == { i \in 1..(Len(log) - 1) :
                log[i + 1].t = "expect" /\ log[i + 1].cmd = "set_ikeys" }

OkSends  == { i \in 1..(Len(log) - 1) :
                log[i + 1].t = "expect" /\ log[i + 1].cmd = "set_ikeys.ok" }

(* C6: set_ikeys sends the pairs of the mapping in the mapping's order on  *)
(* the primary, one '<key> <value>' line per round trip, pair k+1 only     *)
(* right after pair k was classified as accepted, and 'ok' exactly once,   *)
(* only after every pair was accepted.                                     *)
C6_KeysInOrderThenOk ==
    /\ \A i \in KeySends :
          LET n == Cardinality({ j \in KeySends : j <= i }) IN
              /\ n <= Len(loc.ikeys)
              /\ log[i] = Sent(request.telnet, "kv", loc.ikeys[n], FALSE)
              /\ n > 1 => log[i - 1] = Got(request.telnet, "set_ikeys", 2)
    /\ Cardinality(OkSends) <= 1
    /\ \A i \in OkSends :
          /\ log[i] = Sent(request.telnet, "ok", "", FALSE)
          /\ Cardinality(KeySends) = Len(loc.ikeys)
          /\ \A j \in KeySends : j < i /\ log[j + 1].res = 2
    /\ ( /\ KeySends # {}
         /\ Cardinality(KeySends) = Len(loc.ikeys)
         /\ \A j \in KeySends : log[j + 1].res = 2
         /\ pc # "set_ikeys" ) => Cardinality(OkSends) = 1

C6_Witness ==
    /\ Len(loc.ikeys) >= 3
    /\ \E i \in OkSends : log[i + 1].res = 1
    /\ pc = "done"

SetIkeysError(r) ==
    IF r = 0 THEN "UnknownError"
    ELSE IF r = 1 THEN "CanNotModifyError"
    ELSE IF r \in {3, 4} THEN "JasminSyntaxError"
    ELSE PexpectError(r)

C8_QuitNeverInSubPrompt ==
    ( /\ pc = "process_response"
      /\ request.has_telnet
      /\ request.telnet # None
      /\ exc \in { "UnknownError", "CanNotModifyError", "MissingKeyError" } )
        => cmode[request.telnet] # INTERACTIVE_PROMPT

----------------------------------------------------------------------------
(* Replica propagation *)

(* C9: in multi-instance mode 'load' is sent to a replica only after       *)
(* 'persist' was sent on the primary and the ready prompt of its reply was *)
(* observed, in every mutating operation, group remove / enable / disable  *)
(* included.                                                               *)
C9_LoadAfterPersistReply ==
    \A j \in 1..Len(log) :
        (log[j].t = "send" /\ log[j].cmd = "load") =>
            \E i \in 2..(j - 1) :
                /\ log[i] = Got(request.telnet, "persist", 0)
                /\ log[i - 1].t = "send"
                /\ log[i - 1].cmd = "persist"

MutatingViews ==
    { v \in Views : \E k \in { "create", "destroy", "enable", "disable", "start", "stop",
                               "flush", "partial_update", "custom_partial_update",
                               "smpp_unbind", "smpp_ban" } :
          \E c \in { "GroupViewSet", "FiltersViewSet", "UserViewSet", "SMPPCCMViewSet",
                     "HTTPCCMViewSet", "MORouterViewSet", "MTRouterViewSet" } :
              v = c \o "." \o k }

(* C10: in multi-instance mode, when a mutating view has succeeded on the  *)
(* primary (it persisted and returned without an error), 'load' was sent   *)
(* exactly once to every non-primary session of the pool and its ready     *)
(* prompt awaited; HTTP connector removal included.                        *)
C10_LoadOnceOnEveryReplica ==
    ( /\ pc = "process_response"
      /\ exc = ""
      /\ MultiInstance
      /\ request.view \in MutatingViews
      /\ Sends(request.telnet, "persist") # {} ) =>
        \A k \in 1..Len(request.telnet_list) :
            /\ Cardinality(Sends(request.telnet_list[k], "load")) = 1
            /\ \A i \in Sends(request.telnet_list[k], "load") :
                  i < Len(log) /\ log[i + 1].t = "expect" /\ log[i + 1].cmd = "load"

(* the waits for the reply to 'load' that failed *)
FailedLoads ==
    { i \in 1..Len(log) : log[i].t = "expect" /\ log[i].cmd = "load" /\ log[i].res # 0 }

(* the lines a session iterated as a replica list has yielded *)
LinesRead ==
    { i \in 1..Len(log) : log[i] = Got(request.telnet, "readline", 0) }

(* C11: a replica failing to reload never becomes the operation's error:   *)
(* sync_conf_instances logs exactly one record per failing replica, still  *)
(* sends 'load' to every later replica of its list, and returns normally   *)
(* to its caller.                                                          *)
C11_ReplicaFailureSwallowed ==
    /\ [](errlog = Cardinality(FailedLoads) + Cardinality(LinesRead))
    /\ [](\A i \in FailedLoads :
             /\ i > 1
             /\ log[i - 1] = Sent(log[i].s, "load", "", TRUE)
             /\ \A j \in FailedLoads : log[j].s = log[i].s => j = i)
    /\ [][ pc = "sync_conf_instances" =>
             /\ exc' = ""
             /\ pc' \in { "sync_conf_instances", loc.ret }
             /\ (pc' = "sync_conf_instances") = (loc.i <= Len(loc.arg))
             /\ pc' = loc.ret =>
                   \A k \in 1..Len(loc.arg) :
                       Cardinality({ i \in 1..Len(log) :
                                       log[i] = Sent(loc.arg[k], "load", "", TRUE) }) = 1
         ]_vars

C11_Witness ==
    /\ Len(request.telnet_list) = 2
    /\ pc = "done"
    /\ exc = ""
    /\ errlog = 1
    /\ \E i \in FailedLoads :
          /\ log[i] = Got(request.telnet_list[1], "load", TIMEOUT)
          /\ log[i + 2] = Got(request.telnet_list[2], "load", 0)

----------------------------------------------------------------------------
(* Client input *)

(* the lines sent on the primary besides its login and the 'quit' of the teardown *)
PrimaryLines ==
    { i \in 1..Len(log) :
        /\ log[i].t = "send"
        /\ log[i].s = request.telnet
        /\ log[i].cmd \notin LoginCmds \cup { "quit" } }

(* a route creation body with the mandatory fields and a wrong number of connectors *)
WrongConnectorCount ==
    /\ request.view \in { "MORouterViewSet.create", "MTRouterViewSet.create" }
    /\ {"type", "order", "rate"} \subseteq request.data.has
    /\ request.data.rtype # "defaultroute" => "filters" \in request.data.has
    /\ IF request.data.rtype = "randomroundrobinroute"
       THEN request.data.nconn < 2
       ELSE request.data.nconn # 1

(* C12: a round-robin route creation with fewer than two connectors, and   *)
(* any other route creation with a number of connectors other than one,    *)
(* fails before anything was sent on the primary session.                  *)
C12_ConnectorCountCheckedBeforeIO ==
    ( /\ ViewEntered
      /\ WrongConnectorCount
      /\ exc \in { "MissingKeyError", "MutipleValuesRequiredKeyError",
                   "MultipleValuesRequiredKeyError" } ) => PrimaryLines = {}

(* a create / update body that lacks a required field *)
MissingInput ==
    \/ request.view = "GroupViewSet.create" /\ "gid" \notin request.data.has
    \/ /\ request.view = "FiltersViewSet.create"
       /\ \/ ~({"type", "fid"} \subseteq request.data.has)
          \/ request.data.rtype # "transparentfilter" /\ "parameter" \notin request.data.has
          \/ request.data.rtype = "nosuchfilter"
    \/ /\ request.view \in { "MORouterViewSet.create", "MTRouterViewSet.create" }
       /\ \/ "order" \notin request.data.has
          \/ request.data.rtype # "defaultroute" /\ "filters" \notin request.data.has
    \/ /\ request.view \in { "UserViewSet.partial_update",
                             "SMPPCCMViewSet.custom_partial_update" }
       /\ request.data.updates = 0

(* C13: in every create / update view a client-input error (missing gid,   *)
(* missing per-type parameter or unsupported type of a filter, missing     *)
(* filters of a non-default route, empty update body) is raised before any *)
(* line was sent on the primary session.                                   *)
C13_InputCheckedBeforeIO ==
    ( /\ ViewEntered
      /\ MissingInput
      /\ exc \in { "MissingKeyError", "JasminError", "JasminSyntaxError" } )
        => PrimaryLines = {}

----------------------------------------------------------------------------
(* The dialogue on one session *)

(* the sends and waits on session s once its login is over, in log order *)
Dialogue(s) ==
    { i \in 1..Len(log) :
        /\ log[i].s = s
        /\ log[i].t \in { "send", "expect" }
        /\ log[i].cmd \notin LoginCmds \cup LoginSites }

(* C14: on every session the dialogue is strictly request / response: a    *)
(* line is sent only when the reply to the line before it was awaited, and *)
(* no reply is awaited without an unanswered line before it.               *)
C14_StrictRequestResponse ==
    \A s \in Sessions :
        \A i \in Dialogue(s) :
            LET before == { j \in Dialogue(s) : j < i } IN
                IF before = {}
                THEN log[i].t = "send"
                ELSE LET j == CHOOSE k \in before : \A m \in before : m <= k
                     IN  log[i].t # log[j].t

----------------------------------------------------------------------------
(* Rule sets *)

(* the last event of the log is the wait at `site` *)
JustWaited(site) ==
    /\ log # << >>
    /\ log[Len(log)].t = "expect"
    /\ log[Len(log)].cmd = site

LastRes == log[Len(log)].res


(* C15: whenever the reply fits two or more rules of the list passed to    *)
(* expect, the outcome acted upon is that of the rule with the lowest      *)
(* index: a simple-action reply with both 'Successfully' and 'Unknown      *)
(* <Kind>:' goes on to 'persist', a set_ikeys reply with both 'Unknown'    *)
(* and 'can not be modified' is an UnknownError.                           *)
C15_EarliestRuleWins ==
    /\ (log # << >> /\ log[Len(log)].t = "expect") =>
          IF match = {} THEN LastRes \in { TIMEOUT, EOF }
                        ELSE LastRes = FirstOf(match)
    /\ (JustWaited("simple_action") /\ {0, 1} \subseteq match) =>
          /\ exc = ""
          /\ pc \in { "simple_group_action:persist", "simple_filter_action:persist",
                      "simple_user_action:persist", "simple_smppccm_action:persist",
                      "simple_httpccm_action:persist", "simple_morouter_action:persist",
                      "simple_mtrouter_action:persist" }
    /\ (JustWaited("set_ikeys") /\ {0, 1} \subseteq match) => exc = "UnknownError"
    /\ (JustWaited("set_ikeys") /\ 1 \in match /\ 0 \notin match) =>
          exc = "CanNotModifyError"

C15_Witness ==
    /\ JustWaited("simple_action")
    /\ match = {0, 1, 2}
    /\ request.view = "UserViewSet.enable"

(* C16: no rule of a list is shadowed by an earlier, more general one: in  *)
(* set_ikeys a reply 'Unknown SMPPClientConfig key: ...' followed by the   *)
(* interactive prompt selects the rule written for it (index 3) and is     *)
(* reported as JasminSyntaxError.                                          *)
C16_SpecificRuleNotShadowed ==
    (JustWaited("set_ikeys") /\ 3 \in match) =>
        /\ LastRes = 3
        /\ exc = "JasminSyntaxError"

(* the view class of the running view *)
ActionKind ==
    CHOOSE c \in { "GroupViewSet", "FiltersViewSet", "UserViewSet", "SMPPCCMViewSet",
                   "HTTPCCMViewSet", "MORouterViewSet", "MTRouterViewSet", "other" } :
        \/ c = "other" /\ ~\E v \in Views : v = request.view
        \/ \E k \in { "destroy", "enable", "disable", "start", "stop", "flush", "create",
                      "smpp_unbind", "smpp_ban", "list", "retrieve", "partial_update",
                      "custom_partial_update", "list_smppc_status" } :
              request.view = c \o "." \o k

PersistPcs ==
    { "simple_group_action:persist", "simple_filter_action:persist",
      "simple_user_action:persist", "simple_smppccm_action:persist",
      "simple_httpccm_action:persist", "simple_morouter_action:persist",
      "simple_mtrouter_action:persist" }

(* the errors of the three view families for a not-found and a generic reply *)
NotFoundError ==
    IF ActionKind \in { "GroupViewSet", "SMPPCCMViewSet", "HTTPCCMViewSet" }
    THEN "ObjectNotFoundError" ELSE "UnknownError"

GenericError ==
    IF ActionKind \in { "GroupViewSet", "SMPPCCMViewSet", "HTTPCCMViewSet" }
    THEN "ActionFailed" ELSE "JasminError"

----------------------------------------------------------------------------
(* Committing a draft *)

C19_CommitWithoutSetIkeys ==
    (JustWaited("ok") /\ match # {}) =>
        /\ cmode[request.telnet] = INTERACTIVE_PROMPT =>
              (exc = "JasminSyntaxError" /\ pc = "process_response")
        /\ ( /\ cmode[request.telnet] = STANDARD_PROMPT
             /\ request.view \in { "UserViewSet.partial_update",
                                   "SMPPCCMViewSet.custom_partial_update" }
             /\ 0 \notin match ) =>
              (exc = "" /\ pc \in { "UserViewSet.partial_update:persist",
                                    "SMPPCCMViewSet.custom_partial_update:persist" })

----------------------------------------------------------------------------
(* Beginning an interactive operation *)

(* the begin commands the primary was sent *)
BeginSends ==
    { i \in 1..Len(log) :
        /\ log[i].t = "send"
        /\ log[i].s = request.telnet
        /\ log[i].cmd \in BeginCmds }

(* C20: a begin command is followed by the wait for the interactive-mode   *)
(* prompt; when the answer is not that prompt the operation ends in a      *)
(* classified error (UnknownError for a not-found answer, JasminError      *)
(* otherwise, a pexpect error only when no answer arrived) and no          *)
(* key/value line, 'ok' or 'persist' is sent afterwards.                   *)
C20_BeginNotAnswered ==
    /\ \A i \in BeginSends :
          i < Len(log) =>
              /\ log[i + 1].t = "expect"
              /\ log[i + 1].cmd = "begin"
              /\ log[i + 1].res # 0 =>
                    \A j \in (i + 2)..Len(log) :
                        log[j].t = "send" => log[j].cmd \notin {"kv", "ok", "persist"}
    /\ (JustWaited("begin") /\ LastRes # 0) =>
          /\ pc = "process_response"
          /\ exc \in {"UnknownError", "JasminError", "pexpect.TIMEOUT", "pexpect.EOF"}
          /\ (LastRes = TIMEOUT /\ cmode[request.telnet] = INTERACTIVE_PROMPT) =>
                exc \in {"UnknownError", "JasminError"}

----------------------------------------------------------------------------
(* Teardown *)

(* process_response applied once more to a request it has already torn    *)
(* down: the request object still holds telnet / telnet_list               *)
process_response_again ==
    /\ pc = "done"
    /\ \A s \in Sessions : Cardinality(Sends(s, "quit")) <= 1
    /\ pc' = "process_response"
    /\ UNCHANGED <<cfg, request, loc, exc, log, cmode, match, errlog>>

(* the requests followed through two teardowns *)
TwiceViews == { "GroupViewSet.list", "GroupViewSet.destroy" }

InitTwice == Init /\ (request.api => request.view \in TwiceViews)

NextTwice ==
    \/ process_request
    \/ set_telnet_list
    \/ telnet_request
    \/ process_request_prompt
    \/ get_response
    \/ GroupViewSet_list
    \/ GroupViewSet_destroy
    \/ simple_group_action_persist
    \/ sync_conf_instances
    \/ process_response
    \/ process_response_again

SpecTwice == InitTwice /\ [][NextTwice]_vars

(* C21: closing is idempotent: with process_response applied twice to the  *)
(* same request no session is sent 'quit' more than once in total.         *)
C21_CloseIdempotent ==
    \A s \in Sessions : Cardinality(Sends(s, "quit")) <= 1

(* the sessions the request object holds *)
Pool ==
    (IF request.has_telnet /\ request.telnet # None THEN {request.telnet} ELSE {})
    \cup { request.telnet_list[k] : k \in 1..Len(request.telnet_list) }

TeardownPcs == { "process_response", "process_response:list" }

(* what a step of the teardown leaves alone, and where it goes next *)
TeardownStep ==
    pc \in TeardownPcs =>
        /\ exc' = exc
        /\ request' = request
        /\ pc' \in { "process_response:list", "done" }
        /\ (pc' = "process_response:list") =
              (IF pc = "process_response"
               THEN Len(request.telnet_list) > 0
               ELSE loc.i < Len(request.telnet_list))

----------------------------------------------------------------------------
(* Timeouts *)

(* C23: opening a session fails with TelnetConnectionTimeout whenever one  *)
(* of the three waits of the login (the 'Username: ' cue, the 'Password: ' *)
(* cue, the ready prompt after the password) times out, in every mode.     *)
C23_HandshakeTimeoutKind ==
    ( /\ log # << >>
      /\ log[Len(log)].t = "expect"
      /\ log[Len(log)].cmd \in LoginSites
      /\ log[Len(log)].res = TIMEOUT ) =>
        (pc = "failed" /\ exc = "TelnetConnectionTimeout")

(* the last event of the log is a wait of a view on the primary that timed out *)
CommandTimedOut ==
    /\ log # << >>
    /\ log[Len(log)].t = "expect"
    /\ log[Len(log)].s = request.telnet
    /\ log[Len(log)].cmd \notin LoginSites \cup { "quit" }
    /\ log[Len(log)].res = TIMEOUT

(* C24: a wait of a command on the primary that times out ends the view    *)
(* with the timeout itself (pexpect.TIMEOUT or TelnetConnectionTimeout),   *)
(* never with a kind the views use for console answers, and the request    *)
(* goes to the teardown.                                                   *)
C24_CommandTimeoutKind ==
    CommandTimedOut =>
        /\ pc = "process_response"
        /\ exc \in { "pexpect.TIMEOUT", "TelnetConnectionTimeout" }

----------------------------------------------------------------------------
(* Two requests in flight *)

(* the connection pexpect.spawn gives request rq for endpoint k *)
spawn_reusing_connection(rq, k) == k

(* pexpect.spawn(f"telnet {host} {port}"): every call starts a child       *)
(* process of its own, so request rq's connection to endpoint k is no      *)
(* other request's                                                         *)
spawn(rq, k) == (rq - 1) * MaxEndpoints + k

(* process_request of the second request (set_telnet_list included) *)
peer_process_request ==
    /\ peer.pc = "process_request"
    /\ UNCHANGED <<settings, text, request, pc, loc, exc, log, cmode, match, errlog>>
    /\ IF settings.JASMIN_DOCKER \/ settings.JASMIN_K8S
       THEN \/ /\ settings.endpoints > 0
               /\ peer' = [peer EXCEPT !.has_telnet = TRUE, !.has_telnet_list = TRUE,
                                       !.pc = "telnet_request"]
            \/ /\ settings.endpoints = 0 \/ ~settings.JASMIN_DOCKER
               /\ peer' = [peer EXCEPT !.has_telnet = TRUE, !.has_telnet_list = TRUE,
                                       !.pc = "failed",
                                       !.exc = IF settings.endpoints = 0
                                               THEN "TelnetLoginFailed" ELSE "NameError"]
       ELSE peer' = [peer EXCEPT !.has_telnet = TRUE, !.pc = "telnet_request"]

(* telnet_request and the wait for the ready prompt, for one endpoint *)
peer_telnet_request ==
    /\ peer.pc = "telnet_request"
    /\ UNCHANGED <<settings, text, request, pc, loc, exc, log, cmode, match, errlog>>
    /\ LET s == spawn(2, peer.cur) IN
       \E r \in CueOutcomes :
          IF r = 0
          THEN peer' = [Assign(peer, s) EXCEPT
                           !.log = @ \o << Spawned(s), Sent(s, "USERNAME", "", FALSE),
                                           Sent(s, "PASSWORD", "", FALSE) >>,
                           !.cur = @ + 1,
                           !.pc = IF peer.has_telnet_list /\ peer.cur < settings.endpoints
                                  THEN "telnet_request" ELSE "view"]
          ELSE peer' = [peer EXCEPT !.log = Append(@, Spawned(s)),
                                    !.pc = "failed",
                                    !.exc = CueError(r)]

(* the view of the second request: one command on its request.telnet *)
peer_view ==
    /\ peer.pc = "view"
    /\ UNCHANGED <<settings, text, request, pc, loc, exc, log, cmode, match, errlog>>
    /\ \E r \in CueOutcomes :
          peer' = [peer EXCEPT !.log = Append(@, Sent(peer.telnet, "group -l", "", FALSE)),
                               !.exc = IF r = 0 THEN "" ELSE PexpectError(r),
                               !.pc = "process_response"]

(* process_response of the second request *)
peer_process_response ==
    /\ UNCHANGED <<settings, text, request, pc, loc, exc, log, cmode, match, errlog>>
    /\ \/ /\ peer.pc = "process_response"
          /\ peer' = [peer EXCEPT
                         !.log = IF peer.has_telnet /\ peer.telnet # None
                                 THEN Append(@, Sent(peer.telnet, "quit", "", FALSE))
                                 ELSE @,
                         !.i = 1,
                         !.pc = IF peer.has_telnet_list /\ Len(peer.telnet_list) > 0
                                THEN "process_response:list" ELSE "done"]
       \/ /\ peer.pc = "process_response:list"
          /\ peer' = [peer EXCEPT
                         !.log = Append(@, Sent(peer.telnet_list[peer.i], "quit", "", FALSE)),
                         !.i = @ + 1,
                         !.pc = IF peer.i < Len(peer.telnet_list)
                                THEN "process_response:list" ELSE "done"]

PairViews == { "GroupViewSet.list", "GroupViewSet.destroy" }

InitPair == Init /\ request.api /\ request.view \in PairViews

NextPair ==
    \/ process_request
    \/ set_telnet_list
    \/ telnet_request
    \/ process_request_prompt
    \/ get_response
    \/ GroupViewSet_list
    \/ GroupViewSet_destroy
    \/ simple_group_action_persist
    \/ sync_conf_instances
    \/ process_response
    \/ peer_process_request
    \/ peer_telnet_request
    \/ peer_view
    \/ peer_process_response

SpecPair == InitPair /\ [][NextPair]_vars

(* the sessions an event log speaks of, and those it started *)
Used(l)    == { l[i].s : i \in 1..Len(l) }
Started(l) == { l[i].s : i \in { j \in 1..Len(l) : l[j].t = "spawn" } }

PeerPool ==
    (IF peer.has_telnet /\ peer.telnet # None THEN {peer.telnet} ELSE {})
    \cup { peer.telnet_list[k] : k \in 1..Len(peer.telnet_list) }

(* C25: two requests in flight never share a session: each request sends   *)
(* (its 'quit' included) only on sessions it started itself, holds on its  *)
(* request object only sessions it started, and no session is started or   *)
(* used by both.                                                           *)
C25_NoSharedSession ==
    /\ Used(log) \subseteq Started(log)
    /\ Used(peer.log) \subseteq Started(peer.log)
    /\ Pool \subseteq Started(log)
    /\ PeerPool \subseteq Started(peer.log)
    /\ Used(log) \cap Used(peer.log) = {}

(* both requests are past their login and neither is over *)
C25_Witness ==
    /\ pc = "simple_group_action:persist"
    /\ Len(request.telnet_list) > 0
    /\ peer.pc = "process_response:list"
    /\ peer.i = 2
    /\ \E i \in 1..Len(peer.log) : peer.log[i] = Sent(peer.telnet, "quit", "", FALSE)

----------------------------------------------------------------------------
(* Text conversions of the views.  A text is the sequence of its           *)
(* characters; 'smpps(', 'smppc(', 'http(' stand for themselves.           *)

Chars == { "a", "b", " ", "," }

Texts == UNION { [1..n -> Chars] : n \in 0..MaxText }

(* positions of sep in s *)
Find(s, sep) == { i \in 1..Len(s) : s[i] = sep }

RECURSIVE split(_, _)
(* str.split(sep): cut at every sep, empty pieces kept *)
split(s, sep) ==
    IF Find(s, sep) = {}
    THEN << s >>
    ELSE LET i == CHOOSE k \in Find(s, sep) : \A j \in Find(s, sep) : k <= j
         IN  << SubSeq(s, 1, i - 1) >> \o split(SubSeq(s, i + 1, Len(s)), sep)

RECURSIVE lstrip(_)
lstrip(s) == IF s # << >> /\ s[1] = " " THEN lstrip(Tail(s)) ELSE s

RECURSIVE rstrip(_)
rstrip(s) == IF s # << >> /\ s[Len(s)] = " " THEN rstrip(SubSeq(s, 1, Len(s) - 1)) ELSE s

(* str.strip() *)
strip(s) == rstrip(lstrip(s))

RECURSIVE join(_, _)
(* sep.join(items) *)
join(sep, items) ==
    IF items = << >> THEN << >>
    ELSE IF Len(items) = 1 THEN items[1]
    ELSE items[1] \o << sep >> \o join(sep, Tail(items))

(* [f'{open}{c.strip()})' for c in s.split(',') if c.strip()] *)
refs(open, s) ==
    LET kept == SelectSeq(split(s, ","), LAMBDA c : strip(c) # << >>)
    IN  [k \in 1..Len(kept) |-> << open >> \o strip(kept[k]) \o << ")" >>]

(* the references with the SMPP wrapper of the MO routes used by both views *)
mtrouter_connectors_as_mo(smppconnectors, httpconnectors) ==
    refs("smpps(", smppconnectors) \o refs("http(", httpconnectors)

(* MTRouterViewSet.create: connectors *)
mtrouter_connectors(smppconnectors, httpconnectors) ==
    refs("smppc(", smppconnectors) \o refs("http(", httpconnectors)

(* MORouterViewSet.create: connectors *)
morouter_connectors(smppconnectors, httpconnectors) ==
    refs("smpps(", smppconnectors) \o refs("http(", httpconnectors)

(* MORouterViewSet.create: ikeys['filters'] = ';'.join(data['filters'].split(',')) *)
morouter_filters(filters) == join(";", split(filters, ","))

(* MTRouterViewSet.create: ikeys['filters'] = ';'.join([f.strip() for f in filters]) *)
mtrouter_filters(filters) ==
    LET items == split(filters, ",")
    IN  join(";", [k \in 1..Len(items) |-> strip(items[k])])

RECURSIVE words(_)
(* str.split() without a separator: the runs of non-blank characters *)
words(s) ==
    LET t == lstrip(s) IN
    IF t = << >> THEN << >>
    ELSE LET stop == IF Find(t, " ") = {} THEN Len(t) + 1
                     ELSE CHOOSE k \in Find(t, " ") : \A j \in Find(t, " ") : k <= j
         IN  << SubSeq(t, 1, stop - 1) >> \o words(SubSeq(t, stop, Len(t)))

(* the detail set_ikeys gives its exceptions, by the index expect returned: *)
(* result = telnet.match.group(1).strip(); UnknownError(result),            *)
(* CanNotModifyError(result), JasminSyntaxError(" ".join(result.split()))   *)
set_ikeys_detail(matched_index, group1) ==
    IF matched_index \in {0, 1} THEN strip(group1)
    ELSE join(" ", words(strip(group1)))

(* the detail of the rejected 'ok': " ".join(telnet.match.group(1).split()) *)
set_ikeys_ok_detail(group1) == join(" ", words(group1))

(* captured console text: padded and aligned with blanks *)
Captured == UNION { [1..n -> { "a", " " }] : n \in 0..(MaxText + 1) }

(* A listing reply, line by line: a line that starts with '#', any other   *)
(* line of text, or a blank line; the ready prompt closes it.               *)
LineKinds == { "#x", "t", "" }

PromptLine == "jcli :"

Listings == UNION { [1..n -> LineKinds] : n \in 1..MaxListing }

RECURSIVE lstrip_lines(_)
lstrip_lines(ls) == IF ls # << >> /\ ls[1] = "" THEN lstrip_lines(Tail(ls)) ELSE ls

(* telnet.match.group(0).strip().replace("\r", '').split("\n"): group(0)   *)
(* runs to the end of the prompt, blank lines at its start are stripped    *)
result_lines(ls) == lstrip_lines(ls) \o << PromptLine >>

CharLen(l) == CASE l = "" -> 0 [] l = "t" -> 1 [] l = "#x" -> 2 [] l = PromptLine -> 6

RECURSIVE char_count(_)
(* len() of the text the lines make up, line breaks included *)
char_count(ls) ==
    IF ls = << >> THEN 0
    ELSE CharLen(ls[1]) + (IF Len(ls) > 1 THEN 1 ELSE 0) + char_count(Tail(ls))

(* result[2:-2] *)
slice_2_2(r) == SubSeq(r, 3, Len(r) - 2)

(* split_cols: only the lines whose first field starts with '#' give a row *)
split_cols(ls) == SelectSeq(ls, LAMBDA l : l = "#x")

(* the listing with the lines after the header all taken for data rows *)
group_list_rows_keeps_footer(ls) ==
    LET result == result_lines(ls) IN
    IF Len(result) < 3 THEN << >> ELSE SubSeq(result, 3, Len(result))

(* GroupViewSet.list: every line of result[2:-2] is a group *)
group_list_rows(ls) ==
    LET result == result_lines(ls) IN
    IF Len(result) < 3 THEN << >> ELSE slice_2_2(result)

(* UserViewSet.list: len(result) counts characters; blank lines dropped,   *)
(* then every line of results[2:-2] is a user                              *)
user_list_rows(ls) ==
    LET result == result_lines(ls) IN
    IF char_count(result) < 3 THEN << >>
    ELSE slice_2_2(SelectSeq(result, LAMBDA l : l # ""))

(* the text of a line to parse: '#', a letter, a blank *)
TokenChars == { "#", "a", " " }

LinesUpTo(n) == UNION { [1..k -> TokenChars] : k \in 0..n }

(* what split_cols is given: no line, one line, or two shorter lines *)
ColumnInputs ==
    { << >> } \cup { << l >> : l \in LinesUpTo(MaxText) }
              \cup { << l, m >> : l \in LinesUpTo(MaxText - 1), m \in LinesUpTo(MaxText - 1) }

(* split_cols taking the lines that begin with '#' *)
split_cols_line_start(lines) ==
    LET raw_split == [k \in 1..Len(lines) |-> words(lines[k])]
        fields == [k \in 1..Len(lines) |->
                     IF lines[k] # << >> /\ lines[k][1] = "#" THEN raw_split[k] ELSE << >>]
    IN  SelectSeq(fields, LAMBDA f : f # << >>)

(* split_cols on the text of the lines: raw_split = line.split();          *)
(* fields = [s for s in raw_split if raw_split and raw_split[0][0] == '#']; *)
(* if fields: parsed.append(fields)                                        *)
split_cols_tokens(lines) ==
    LET raw_split == [k \in 1..Len(lines) |-> words(lines[k])]
        fields == [k \in 1..Len(lines) |->
                     IF raw_split[k] # << >> /\ raw_split[k][1][1] = "#"
                     THEN raw_split[k] ELSE << >>]
    IN  SelectSeq(fields, LAMBDA f : f # << >>)

(* get_connector_list and _list of filters and routers: split_cols(result[2:-2]) *)
cols_list_rows(ls) ==
    LET result == result_lines(ls) IN
    IF Len(result) < 3 THEN << >> ELSE split_cols(slice_2_2(result))

ListFns == { "groups.list", "users.list", "cols.list" }

(* no request under way: the conversions are looked at on their own *)
Idle ==
    /\ settings = [JASMIN_DOCKER |-> FALSE, JASMIN_K8S |-> FALSE, endpoints |-> 1]
    /\ request = NewRequest(FALSE, "other", NoData)
    /\ pc = "text"
    /\ loc = NoLoc
    /\ exc = ""
    /\ log = << >>
    /\ cmode = [s \in Sessions |-> "none"]
    /\ match = {}
    /\ errlog = 0
    /\ peer = NoPeer

Given(fn, a, b) == [fn |-> fn, a |-> a, b |-> b, out |-> << >>, done |-> FALSE]

SetIkeysDetails == { "set_ikeys.0", "set_ikeys.1", "set_ikeys.3", "set_ikeys.4", "set_ikeys.ok" }

InitText ==
    /\ Idle
    /\ text \in { Given(fn, a, b) : fn \in { "morouter.connectors", "mtrouter.connectors" },
                                      a \in Texts, b \in Texts }
           \cup { Given(fn, a, << >>) : fn \in { "morouter.filters", "mtrouter.filters" },
                                          a \in Texts }
           \cup { Given(fn, a, << >>) : fn \in SetIkeysDetails, a \in Captured }
           \cup { Given(fn, a, << >>) : fn \in ListFns, a \in Listings }
           \cup { Given("split_cols", a, << >>) : a \in ColumnInputs }

(* what the view makes of the text it was given *)
Conversion(t) ==
    CASE t.fn = "morouter.connectors" -> morouter_connectors(t.a, t.b)
      [] t.fn = "mtrouter.connectors" -> mtrouter_connectors(t.a, t.b)
      [] t.fn = "morouter.filters"    -> << morouter_filters(t.a) >>
      [] t.fn = "mtrouter.filters"    -> << mtrouter_filters(t.a) >>
      [] t.fn = "set_ikeys.0"         -> set_ikeys_detail(0, t.a)
      [] t.fn = "set_ikeys.1"         -> set_ikeys_detail(1, t.a)
      [] t.fn = "set_ikeys.3"         -> set_ikeys_detail(3, t.a)
      [] t.fn = "set_ikeys.4"         -> set_ikeys_detail(4, t.a)
      [] t.fn = "set_ikeys.ok"        -> set_ikeys_ok_detail(t.a)
      [] t.fn = "groups.list"         -> group_list_rows(t.a)
      [] t.fn = "users.list"          -> user_list_rows(t.a)
      [] t.fn = "cols.list"           -> cols_list_rows(t.a)
      [] t.fn = "split_cols"          -> split_cols_tokens(t.a)

convert ==
    /\ ~text.done
    /\ text' = [text EXCEPT !.out = Conversion(text), !.done = TRUE]
    /\ UNCHANGED <<settings, peer, request, pc, loc, exc, log, cmode, match, errlog>>

NextText == convert

SpecText == InitText /\ [][NextText]_vars

----------------------------------------------------------------------------
(* Comma-separated reference lists *)

(* the places a comma-separated text is cut at: before it, at each comma, after it *)
Cuts(s) == {0} \cup Find(s, ",") \cup {Len(s) + 1}

NextCut(s, c) == CHOOSE d \in Cuts(s) : d > c /\ \A e \in Cuts(s) : e > c => d <= e

(* the non-blank characters of the item that starts after cut c *)
Core(s, c) == { i \in (c + 1)..(NextCut(s, c) - 1) : s[i] # " " }

(* the items that are not blank, by the cut they start after *)
Kept(s) == { c \in Cuts(s) : c <= Len(s) /\ Core(s, c) # {} }

Ascending(S) ==
    [k \in 1..Cardinality(S) |-> CHOOSE x \in S : Cardinality({ y \in S : y < x }) = k - 1]

(* an item without the blanks around it *)
Trimmed(s, c) ==
    LET lo == CHOOSE i \in Core(s, c) : \A j \in Core(s, c) : i <= j
        hi == CHOOSE i \in Core(s, c) : \A j \in Core(s, c) : j <= i
    IN  SubSeq(s, lo, hi)

(* normalize: every non-blank item, trimmed, in input order *)
Normalized(s) == [k \in 1..Cardinality(Kept(s)) |-> Trimmed(s, Ascending(Kept(s))[k])]

Wrapped(open, items) == [k \in 1..Len(items) |-> << open >> \o items[k] \o << ")" >>]

(* C26 as stated: in both route views the references are the normalized    *)
(* SMPP items wrapped as smpps(<id>) followed by the normalized HTTP items *)
(* wrapped as http(<id>), and ' a ,' with 'b' joins to 'smpps(a);http(b)'. *)
C26_ConnectorRefs ==
    /\ (text.done /\ text.fn \in { "morouter.connectors", "mtrouter.connectors" }) =>
          text.out = Wrapped("smpps(", Normalized(text.a)) \o Wrapped("http(", Normalized(text.b))
    /\ (text.done /\ text.fn \in { "morouter.connectors", "mtrouter.connectors" }
          /\ text.a = << " ", "a", "," >> /\ text.b = << "b" >>) =>
          join(";", text.out) = << "smpps(", "a", ")", ";", "http(", "b", ")" >>

(* C26 amended: as C26, with the SMPP items of an MT route wrapped as      *)
(* smppc(<id>): ' a ,' with 'b' joins to 'smppc(a);http(b)' there.         *)
C26_ConnectorRefsPerView ==
    /\ (text.done /\ text.fn = "morouter.connectors") =>
          text.out = Wrapped("smpps(", Normalized(text.a)) \o Wrapped("http(", Normalized(text.b))
    /\ (text.done /\ text.fn = "mtrouter.connectors") =>
          text.out = Wrapped("smppc(", Normalized(text.a)) \o Wrapped("http(", Normalized(text.b))
    /\ (text.done /\ text.a = << " ", "a", "," >> /\ text.b = << "b" >>) =>
          /\ text.fn = "morouter.connectors" =>
                join(";", text.out) = << "smpps(", "a", ")", ";", "http(", "b", ")" >>
          /\ text.fn = "mtrouter.connectors" =>
                join(";", text.out) = << "smppc(", "a", ")", ";", "http(", "b", ")" >>

C26_Witness ==
    /\ text.done
    /\ text.fn = "mtrouter.connectors"
    /\ text.a = << " ", "a", "," >>
    /\ text.b = << "b" >>
    /\ Len(text.out) = 2

(* C27: in both route views the value sent for 'filters' is the normalized *)
(* items of the input joined with ';'.                                     *)
C27_FiltersNormalized ==
    (text.done /\ text.fn \in { "morouter.filters", "mtrouter.filters" }) =>
        text.out = << join(";", Normalized(text.a)) >>

----------------------------------------------------------------------------
(* Error details *)

NonBlank(s) == SelectSeq(s, LAMBDA c : c # " ")

(* no blank at either end and no two blanks in a row *)
SingleSpaced(s) ==
    \A i \in 1..Len(s) :
        s[i] = " " => (1 < i /\ i < Len(s) /\ s[i + 1] # " ")

(* C28: the detail of every error set_ikeys raises (unknown key, can not   *)
(* be modified, syntax error, rejected 'ok') is the captured text with its *)
(* runs of blanks collapsed to single blanks.                              *)
C28_DetailCollapsed ==
    (text.done /\ text.fn \in SetIkeysDetails) =>
        /\ SingleSpaced(text.out)
        /\ NonBlank(text.out) = NonBlank(text.a)
        /\ Len(text.out) = Len(NonBlank(text.a)) + Len(words(text.a)) - (IF words(text.a) = << >> THEN 0 ELSE 1)

----------------------------------------------------------------------------
(* Listings *)

-----------------------------------------------------------------------------
(* Filter creation round trip *)

(* the filter creation has read the listing that follows its commit *)
CreateListed ==
    /\ request.view = "FiltersViewSet.create"
    /\ ViewEntered
    /\ \E i \in 1..Len(log) : log[i] = Got(request.telnet, "list", 0)

(* the positions of the log that hold exactly this event *)
At(e) == { i \in 1..Len(log) : log[i] = e }

(* the creation's dialogue on the primary: 'type', then 'fid', accepted,   *)
(* 'ok' answered at the ready prompt, 'persist' answered, then 'filter -l' *)
CreateDialogue ==
    \E t \in At(Sent(request.telnet, "kv", "type", FALSE)) :
    \E f \in At(Sent(request.telnet, "kv", "fid", FALSE)) :
    \E o \in At(Got(request.telnet, "set_ikeys.ok", 1)) :
    \E p \in At(Got(request.telnet, "persist", 0)) :
    \E l \in At(Sent(request.telnet, "filter -l", "", FALSE)) :
        /\ t < f /\ f < o /\ o < p /\ p < l
        /\ log[t + 1] = Got(request.telnet, "set_ikeys", 2)
        /\ log[f + 1] = Got(request.telnet, "set_ikeys", 2)

-----------------------------------------------------------------------------
(* No retry *)

(* the lines of the protocol steps that carry no key *)
StepCmds == BeginCmds \cup { "ok", "persist", "load", "quit" }

(* the positions where session s was sent the key/value line of this key *)
KeyLines(s, key) == { i \in Sends(s, "kv") : log[i].arg = key }

(* the keys a key/value line can carry ("update": one entry of the body of *)
(* a partial update; "item": one field of the body of an HTTP connector)   *)
KeysSent == { log[i].arg : i \in { j \in 1..Len(log) : log[j].cmd = "kv" } }

(* C31: no command is retried: on every session each protocol step (the   *)
(* begin command, the line of each key, 'ok', 'persist', 'load', 'quit')   *)
(* is sent at most once, the entries of a request body once each, and      *)
(* after a wait that timed out or hit the end of the stream no line that   *)
(* was sent before on that session is sent again.                          *)
C31_NoRetry ==
    /\ \A s \in Sessions :
          /\ \A c \in StepCmds : Cardinality(Sends(s, c)) <= 1
          /\ \A key \in KeysSent \ { "update", "item" } :
                Cardinality(KeyLines(s, key)) <= 1
          /\ Cardinality(KeyLines(s, "update")) <= request.data.updates
          /\ Cardinality(KeyLines(s, "item")) <= request.data.updates
    /\ \A i \in 1..Len(log) :
          (log[i].t = "expect" /\ log[i].res \in { TIMEOUT, EOF }) =>
              \A j \in (i + 1)..Len(log) :
                  (log[j].t = "send" /\ log[j].s = log[i].s) =>
                      \A k \in 1..(i - 1) : log[k] # log[j]

C31_Witness ==
    /\ pc = "done"
    /\ Len(request.telnet_list) = 2
    /\ \E i \in 1..Len(log) : log[i] = Got(request.telnet, "set_ikeys", TIMEOUT)
    /\ Cardinality(Sends(request.telnet, "quit")) = 1

-----------------------------------------------------------------------------
(* Persist and propagation only after success *)

(* the waits whose reply the code classified as a refusal: a not-found or  *)
(* generic answer to a single-shot command or to an update's begin         *)
(* command, a pair refused by set_ikeys, an update line refused, a commit  *)
(* refused by set_ikeys                                                    *)
Refusals ==
    { i \in 1..Len(log) :
        /\ log[i].t = "expect"
        /\ \/ log[i].cmd = "simple_action" /\ log[i].res \in {1, 2}
           \/ log[i].cmd = "begin" /\ log[i].res \in {1, 2}
           \/ log[i].cmd = "set_ikeys" /\ log[i].res \in {0, 1, 3, 4}
           \/ log[i].cmd = "update" /\ log[i].res \in {0, 1, 3}
           \/ log[i].cmd = "set_ikeys.ok" /\ log[i].res = 0 }

(* the draft of an interactive operation was given up by the view: an      *)
(* input error found after the begin command, or the commit answered by a  *)
(* reply the view raises JasminSyntaxError for                             *)
DraftGivenUp ==
    /\ BeginSends # {}
    /\ exc \in { "MissingKeyError", "MutipleValuesRequiredKeyError",
                 "MultipleValuesRequiredKeyError", "JasminSyntaxError",
                 "JasminError", "CanNotModifyError" }

(* C32: when the reply to a mutating command was classified as not-found   *)
(* or generic error, or an interactive draft was aborted or refused at the *)
(* commit, no session has been sent 'persist' or 'load' in that operation. *)
C32_PersistOnlyAfterSuccess ==
    (Refusals # {} \/ DraftGivenUp) =>
        \A s \in Sessions : Sends(s, "persist") = {} /\ Sends(s, "load") = {}

C32_Witness ==
    /\ pc = "done"
    /\ request.view = "MORouterViewSet.destroy"
    /\ Len(request.telnet_list) = 2
    /\ \E i \in Refusals : log[i] = Got(request.telnet, "simple_action", 1)

-----------------------------------------------------------------------------
(* Connector cardinality of a route *)

(* a route creation whose connectors break the rule of its type *)
CardinalityViolated ==
    /\ request.view \in { "MORouterViewSet.create", "MTRouterViewSet.create" }
    /\ IF request.data.rtype = "randomroundrobinroute"
       THEN request.data.nconn < 2
       ELSE request.data.nconn # 1

-----------------------------------------------------------------------------
(* Read-only operations *)

(* list and retrieve of every resource kind, and the SMPP status listing *)
ReadOnlyViews ==
    { "GroupViewSet.list", "FiltersViewSet.list", "FiltersViewSet.retrieve",
      "UserViewSet.list", "UserViewSet.retrieve", "SMPPCCMViewSet.list",
      "SMPPCCMViewSet.retrieve", "SMPPCCMViewSet.list_smppc_status",
      "HTTPCCMViewSet.list", "HTTPCCMViewSet.retrieve", "MORouterViewSet.list",
      "MORouterViewSet.retrieve", "MTRouterViewSet.list", "MTRouterViewSet.retrieve" }

(* C34: a read-only operation sends listing ('-l') and show ('-s <id>')    *)
(* commands only: between the login lines and the 'quit' of the teardown   *)
(* no session is sent 'persist', 'ok', 'load', a key/value line or a       *)
(* mutating command.                                                       *)
C34_ReadOnlySendsOnlyListAndShow ==
    request.view \in ReadOnlyViews =>
        \A i \in 1..Len(log) :
            log[i].t = "send" =>
                log[i].cmd \in LoginCmds \cup ReadOnlyCmds \cup { "quit" }

C34_Witness ==
    /\ pc = "done"
    /\ request.view = "SMPPCCMViewSet.list_smppc_status"
    /\ Len(request.telnet_list) = 2
    /\ \A s \in Pool : Sends(s, "smppccm -l") # {}

-----------------------------------------------------------------------------
(* Single-instance mode *)

(* C35: in single-instance mode (neither JASMIN_DOCKER nor JASMIN_K8S) the *)
(* pool is the primary alone, and every operation, the removal of a group, *)
(* filter, MO or MT route and the enabling and disabling of a group        *)
(* included, sends its command on the primary, completes without needing a *)
(* replica list and sends 'load' to nothing.  (A request refused for a     *)
(* missing field before anything was sent has no command to send.)         *)
C35_SingleInstanceNeedsNoReplicaList ==
    (~MultiInstance /\ ViewEntered) =>
        /\ Pool = { request.telnet }
        /\ \A s \in Sessions : Sends(s, "load") = {}
        /\ \A i \in 1..Len(log) : log[i].t = "send" => log[i].s = request.telnet
        /\ exc # "AttributeError"
        /\ (pc = "done" /\ request.view \in Views /\ exc # "MissingKeyError")
              => PrimaryLines # {}

-----------------------------------------------------------------------------
(* The pool of a multi-instance request *)

(* the sessions opened so far *)
Opened == { s \in Sessions : WasSpawned(s) }

(* C36: in Docker or K8s mode, once all N resolved endpoints have reached  *)
(* the ready prompt, the primary is the session of the first endpoint,     *)
(* request.telnet_list holds the sessions of the other N - 1 endpoints,    *)
(* each once, in resolved order, and the sessions opened are exactly the   *)
(* sessions held (primary plus replicas).                                  *)
C36_PoolShape ==
    (MultiInstance /\ ViewEntered) =>
        /\ settings.endpoints >= 1
        /\ \A s \in 1..settings.endpoints : ReachedReady(s)
        /\ request.telnet = 1
        /\ request.telnet_list = [k \in 1..(settings.endpoints - 1) |-> k + 1]
        /\ Opened = Pool
        /\ Cardinality({ i \in 1..Len(log) : log[i].t = "spawn" }) = settings.endpoints

C36_Witness ==
    /\ settings.JASMIN_K8S
    /\ ~settings.JASMIN_DOCKER
    /\ settings.endpoints = 3
    /\ pc = "done"
    /\ request.telnet_list = << 2, 3 >>
    /\ Sends(3, "quit") # {}

-----------------------------------------------------------------------------
(* The SMPP connector status listing *)

(* the sessions the status listing has to ask, in order *)
StatusOrder == << request.telnet >> \o TelnetListOrEmpty

(* the positions where a connector listing was asked for, on any session *)
StatusSends == { i \in 1..Len(log) : log[i].t = "send" /\ log[i].cmd = "smppccm -l" }

(* C37: the SMPP connector status listing asks every session of the pool,  *)
(* the primary first and then each replica in pool order, one listing      *)
(* command per session, each answered before the next is sent, and returns *)
(* one connector list per session (1 + number of replicas) in that order.  *)
C37_StatusPerSession ==
    (request.view = "SMPPCCMViewSet.list_smppc_status" /\ ViewEntered) =>
        /\ Cardinality(StatusSends) <= Len(StatusOrder)
        /\ \A i \in StatusSends :
              /\ log[i].s = StatusOrder[Cardinality({ j \in StatusSends : j <= i })]
              /\ log[i + 1].t = "expect" /\ log[i + 1].s = log[i].s
        /\ Len(loc.instances) <= Cardinality(StatusSends)
        /\ \A k \in 1..Len(loc.instances) : loc.instances[k].s = StatusOrder[k]
        /\ (exc = "" /\ pc \in { "process_response", "process_response:list", "done" }) =>
              /\ Len(loc.instances) = 1 + Len(request.telnet_list)
              /\ Cardinality(StatusSends) = Len(StatusOrder)

C37_Witness ==
    /\ request.view = "SMPPCCMViewSet.list_smppc_status"
    /\ pc = "done"
    /\ exc = ""
    /\ request.telnet_list = << 2, 3 >>
    /\ Len(loc.instances) = 3
    /\ loc.instances[1].rows = 1
    /\ loc.instances[3].rows = 0

-----------------------------------------------------------------------------
(* Requests outside /api/ *)

(* C38: for a request whose path does not start with '/api/' no session is *)
(* opened, neither request.telnet nor request.telnet_list is set, and      *)
(* process_response sends nothing, kills nothing and leaves the response   *)
(* as the view made it.                                                    *)
C38_OtherPathsUntouched ==
    ~request.api =>
        /\ log = << >>
        /\ \A s \in Sessions : cmode[s] = "none"
        /\ ~request.has_telnet /\ ~request.has_telnet_list
        /\ request = NewRequest(FALSE, request.view, request.data)
        /\ exc = ""
        /\ pc \in { "process_request", "get_response", "process_response", "done" }

C38_Witness ==
    /\ ~request.api
    /\ pc = "done"
    /\ settings.JASMIN_DOCKER
    /\ settings.endpoints = 2

-----------------------------------------------------------------------------
(* Rows of a listing *)

(* where the tokens of a line start: a non-blank character at the start of *)
(* the line or after a blank                                               *)
TokenStarts(l) == { i \in 1..Len(l) : l[i] # " " /\ (i = 1 \/ l[i - 1] = " ") }

(* where the token that starts at i ends *)
TokenEnd(l, i) ==
    CHOOSE j \in i..Len(l) :
        /\ \A q \in i..j : l[q] # " "
        /\ j = Len(l) \/ l[j + 1] = " "

(* the whitespace-separated tokens of a line, left to right *)
Tokens(l) ==
    LET at == Ascending(TokenStarts(l))
    IN  [k \in 1..Len(at) |-> SubSeq(l, at[k], TokenEnd(l, at[k]))]

(* the first token of the line starts with '#' *)
HashFirst(l) ==
    /\ TokenStarts(l) # {}
    /\ l[FirstOf(TokenStarts(l))] = "#"

====
